---- MODULE Spec2Model ----
(***************************************************************************)
(* d3-gup: the General Update Pattern as a configurable factory            *)
(* (src/src/gup.js) and the composition of such factories                  *)
(* (src/src/compose.js).                                                   *)
(*                                                                         *)
(* A factory ("gup") holds five phase slots: select, pre, exit, enter and  *)
(* post.  Internally null stands for "not configured"; the getters replace *)
(* null by the exported sentinels `identity` (select, enter) and `empty`   *)
(* (pre, exit, post).                                                      *)
(***************************************************************************)
EXTENDS Integers, Sequences, FiniteSets, TLC

(***************************************************************************)
(* Bounds of the model.                                                    *)
(***************************************************************************)
\* number of distinct user-supplied functions
NUser == 1
\* largest number of arguments passed to update(...)
MaxUpdateArgs == 5
\* number of factories handed to compose
NSources == 2

(***************************************************************************)
(* Function values.  A JavaScript value that can be stored in a phase slot *)
(* is null, one of the two exported sentinels, a user function, or a       *)
(* dispatcher built by comp (identified by the composite it was built for  *)
(* and the phase name it closes over).                                     *)
(***************************************************************************)
Phases == <<"select", "pre", "exit", "enter", "post">>
PhaseNames == {"select", "pre", "exit", "enter", "post"}

Null == [k |-> "null", n |-> 0, ph |-> ""]
empty == [k |-> "empty", n |-> 0, ph |-> ""]
identity == [k |-> "identity", n |-> 0, ph |-> ""]
User(i) == [k |-> "user", n |-> i, ph |-> ""]
Dispatcher(g, name) == [k |-> "comp", n |-> g, ph |-> name]
\* a user function whose return value is a transition (it exposes selection)
TUser(i) == [k |-> "tuser", n |-> i, ph |-> ""]
\* a user function that throws
Thrower == [k |-> "thrower", n |-> 1, ph |-> ""]
\* caller-supplied functions that change the container: sel => sel.append(..)
\* adds one element per element of sel, sel => sel.remove() removes them
Appender == [k |-> "append", n |-> 1, ph |-> ""]
Remover == [k |-> "remove", n |-> 1, ph |-> ""]
\* a method of the selection or transition a bound instance is called on
External(name) == [k |-> "ext", n |-> 0, ph |-> name]

UserFns == {User(i) : i \in 1..NUser}
TUserFns == {TUser(i) : i \in 1..NUser}
\* what a caller may hand to a setter: a function or null
ArgVals == {Null} \cup UserFns

Truthy(v) == v.k # "null"
IsCallable(v) ==
  v.k \in {"empty", "identity", "user", "tuser", "thrower", "append", "remove", "comp"}

\* let pre = null, exit = null, enter = null, post = null, select = null
FreshGup == [p \in PhaseNames |-> Null]

(***************************************************************************)
(* Return values of the accessors: the factory itself (`this`), a single   *)
(* function, or an array of functions.                                     *)
(***************************************************************************)
RetThis(g) == [t |-> "this", g |-> g, fn |-> Null, tup |-> <<>>]
RetFn(f) == [t |-> "fn", g |-> 0, fn |-> f, tup |-> <<>>]
RetTuple(s) == [t |-> "tuple", g |-> 0, fn |-> Null, tup |-> s]
RetNone == [t |-> "none", g |-> 0, fn |-> Null, tup |-> <<>>]

(***************************************************************************)
(* The five phase accessors.  G is the state of all factories, g the       *)
(* factory the method is called on, args the argument list.  Each returns  *)
(* the new state of the factories and the value returned to the caller.    *)
(***************************************************************************)
\* a slip of the select accessor: the setter returns the assigned function
gup_select_ReturnsArg(G, g, args) ==
  IF Len(args) # 0
    THEN [G |-> [G EXCEPT ![g]["select"] = args[1]], ret |-> RetFn(args[1])]
    ELSE [G |-> G,
          ret |-> RetFn(IF Truthy(G[g]["select"]) THEN G[g]["select"] ELSE identity)]

gup_select(G, g, args) ==
  IF Len(args) # 0
    THEN [G |-> [G EXCEPT ![g]["select"] = args[1]], ret |-> RetThis(g)]
    ELSE [G |-> G,
          ret |-> RetFn(IF Truthy(G[g]["select"]) THEN G[g]["select"] ELSE identity)]

gup_pre(G, g, args) ==
  IF Len(args) # 0
    THEN [G |-> [G EXCEPT ![g]["pre"] = args[1]], ret |-> RetThis(g)]
    ELSE [G |-> G,
          ret |-> RetFn(IF Truthy(G[g]["pre"]) THEN G[g]["pre"] ELSE empty)]

\* a slip of the exit accessor: the setter assigns the pre slot
gup_exit_StoresPre(G, g, args) ==
  IF Len(args) # 0
    THEN [G |-> [G EXCEPT ![g]["pre"] = args[1]], ret |-> RetThis(g)]
    ELSE [G |-> G,
          ret |-> RetFn(IF Truthy(G[g]["exit"]) THEN G[g]["exit"] ELSE empty)]

gup_exit(G, g, args) ==
  IF Len(args) # 0
    THEN [G |-> [G EXCEPT ![g]["exit"] = args[1]], ret |-> RetThis(g)]
    ELSE [G |-> G,
          ret |-> RetFn(IF Truthy(G[g]["exit"]) THEN G[g]["exit"] ELSE empty)]

\* a slip of the enter accessor: the getter falls back to empty
gup_enter_DefaultEmpty(G, g, args) ==
  IF Len(args) # 0
    THEN [G |-> [G EXCEPT ![g]["enter"] = args[1]], ret |-> RetThis(g)]
    ELSE [G |-> G,
          ret |-> RetFn(IF Truthy(G[g]["enter"]) THEN G[g]["enter"] ELSE empty)]

gup_enter(G, g, args) ==
  IF Len(args) # 0
    THEN [G |-> [G EXCEPT ![g]["enter"] = args[1]], ret |-> RetThis(g)]
    ELSE [G |-> G,
          ret |-> RetFn(IF Truthy(G[g]["enter"]) THEN G[g]["enter"] ELSE identity)]

\* a slip of the post accessor: the getter returns the raw slot
gup_post_Raw(G, g, args) ==
  IF Len(args) # 0
    THEN [G |-> [G EXCEPT ![g]["post"] = args[1]], ret |-> RetThis(g)]
    ELSE [G |-> G, ret |-> RetFn(G[g]["post"])]

gup_post(G, g, args) ==
  IF Len(args) # 0
    THEN [G |-> [G EXCEPT ![g]["post"] = args[1]], ret |-> RetThis(g)]
    ELSE [G |-> G,
          ret |-> RetFn(IF Truthy(G[g]["post"]) THEN G[g]["post"] ELSE empty)]

\* method lookup g[name] for the five phase names
Accessor(name, G, g, args) ==
  CASE name = "select" -> gup_select(G, g, args)
    [] name = "pre" -> gup_pre(G, g, args)
    [] name = "exit" -> gup_exit(G, g, args)
    [] name = "enter" -> gup_enter(G, g, args)
    [] name = "post" -> gup_post(G, g, args)

\* the getter form g[name]()
Getter(name, G, g) == Accessor(name, G, g, <<>>).ret.fn

(***************************************************************************)
(* update: the bulk accessor of pre, exit, enter and post.                 *)
(***************************************************************************)
\* the value of args[i] in a destructuring assignment (undefined when absent)
ArgOrUndefined(args, i) == IF i <= Len(args) THEN args[i] ELSE Null

\* slips of update.  Swapped: the getter lists enter before exit.
gup_update_Swapped(G, g, args) ==
  CASE Len(args) = 0 ->
         [G |-> G,
          ret |-> RetTuple(<<IF Truthy(G[g]["pre"]) THEN G[g]["pre"] ELSE empty,
                             IF Truthy(G[g]["enter"]) THEN G[g]["enter"] ELSE identity,
                             IF Truthy(G[g]["exit"]) THEN G[g]["exit"] ELSE empty,
                             IF Truthy(G[g]["post"]) THEN G[g]["post"] ELSE empty>>)]
    [] Len(args) = 1 ->
         [G |-> [G EXCEPT ![g]["pre"] = args[1]], ret |-> RetThis(g)]
    [] Len(args) = 2 ->
         [G |-> [G EXCEPT ![g]["pre"] = args[1], ![g]["exit"] = args[2]],
          ret |-> RetThis(g)]
    [] Len(args) = 3 ->
         [G |-> [G EXCEPT ![g]["pre"] = args[1], ![g]["exit"] = args[2],
                          ![g]["enter"] = args[3]],
          ret |-> RetThis(g)]
    [] OTHER ->
         [G |-> [G EXCEPT ![g]["pre"] = args[1], ![g]["exit"] = args[2],
                          ![g]["enter"] = args[3], ![g]["post"] = args[4]],
          ret |-> RetThis(g)]

\* Fallthrough: the cases of the switch lack their break, so every call
\* with arguments ends in the four-way assignment.
gup_update_Fallthrough(G, g, args) ==
  CASE Len(args) = 0 ->
         [G |-> G,
          ret |-> RetTuple(<<IF Truthy(G[g]["pre"]) THEN G[g]["pre"] ELSE empty,
                             IF Truthy(G[g]["exit"]) THEN G[g]["exit"] ELSE empty,
                             IF Truthy(G[g]["enter"]) THEN G[g]["enter"] ELSE identity,
                             IF Truthy(G[g]["post"]) THEN G[g]["post"] ELSE empty>>)]
    [] OTHER ->
         [G |-> [G EXCEPT ![g]["pre"] = ArgOrUndefined(args, 1),
                          ![g]["exit"] = ArgOrUndefined(args, 2),
                          ![g]["enter"] = ArgOrUndefined(args, 3),
                          ![g]["post"] = ArgOrUndefined(args, 4)],
          ret |-> RetThis(g)]

\* Strict: the four-way assignment is `case 4`, other arities assign nothing.
gup_update_Strict(G, g, args) ==
  CASE Len(args) = 0 ->
         [G |-> G,
          ret |-> RetTuple(<<IF Truthy(G[g]["pre"]) THEN G[g]["pre"] ELSE empty,
                             IF Truthy(G[g]["exit"]) THEN G[g]["exit"] ELSE empty,
                             IF Truthy(G[g]["enter"]) THEN G[g]["enter"] ELSE identity,
                             IF Truthy(G[g]["post"]) THEN G[g]["post"] ELSE empty>>)]
    [] Len(args) = 1 ->
         [G |-> [G EXCEPT ![g]["pre"] = args[1]], ret |-> RetThis(g)]
    [] Len(args) = 2 ->
         [G |-> [G EXCEPT ![g]["pre"] = args[1], ![g]["exit"] = args[2]],
          ret |-> RetThis(g)]
    [] Len(args) = 3 ->
         [G |-> [G EXCEPT ![g]["pre"] = args[1], ![g]["exit"] = args[2],
                          ![g]["enter"] = args[3]],
          ret |-> RetThis(g)]
    [] Len(args) = 4 ->
         [G |-> [G EXCEPT ![g]["pre"] = args[1], ![g]["exit"] = args[2],
                          ![g]["enter"] = args[3], ![g]["post"] = args[4]],
          ret |-> RetThis(g)]
    [] OTHER -> [G |-> G, ret |-> RetThis(g)]

gup_update(G, g, args) ==
  CASE Len(args) = 0 ->
         [G |-> G,
          ret |-> RetTuple(<<IF Truthy(G[g]["pre"]) THEN G[g]["pre"] ELSE empty,
                             IF Truthy(G[g]["exit"]) THEN G[g]["exit"] ELSE empty,
                             IF Truthy(G[g]["enter"]) THEN G[g]["enter"] ELSE identity,
                             IF Truthy(G[g]["post"]) THEN G[g]["post"] ELSE empty>>)]
    [] Len(args) = 1 ->
         [G |-> [G EXCEPT ![g]["pre"] = args[1]], ret |-> RetThis(g)]
    [] Len(args) = 2 ->
         [G |-> [G EXCEPT ![g]["pre"] = args[1], ![g]["exit"] = args[2]],
          ret |-> RetThis(g)]
    [] Len(args) = 3 ->
         [G |-> [G EXCEPT ![g]["pre"] = args[1], ![g]["exit"] = args[2],
                          ![g]["enter"] = args[3]],
          ret |-> RetThis(g)]
    [] OTHER ->
         [G |-> [G EXCEPT ![g]["pre"] = args[1], ![g]["exit"] = args[2],
                          ![g]["enter"] = args[3], ![g]["post"] = args[4]],
          ret |-> RetThis(g)]

(***************************************************************************)
(* Runtime values handed to and returned by phase functions.  A value is a *)
(* term written as a sequence of tokens: what it started from followed by  *)
(* what was applied to it.                                                 *)
(***************************************************************************)
Undefined == <<"undefined">>
\* the value a throwing user function throws, and the error of calling or
\* reading a property of something that is not there
Exception == <<"exception">>
TypeError == <<"TypeError">>

UserTags == <<"u1", "u2", "u3", "u4", "u5", "u6">>
TransitionTags == <<"t1", "t2", "t3", "t4", "t5", "t6">>

\* what user function f returns when called with args: a new value derived
\* from its first argument and marked by f
UserRet(f, args) ==
  LET tag == IF f.k = "tuser" THEN TransitionTags[f.n] ELSE UserTags[f.n] IN
  IF Len(args) = 0 THEN <<tag>> ELSE Append(args[1], tag)

\* args[0] = v
SetFirst(args, v) == IF Len(args) = 0 THEN <<v>> ELSE [args EXCEPT ![1] = v]

Reverse(s) == [i \in 1..Len(s) |-> s[Len(s) + 1 - i]]

\* one observed function call: the factory whose getter supplied the function
\* (0 when called directly), the function, its arguments, what it returned,
\* and the nesting depth of the call
CallEntry(depth, src, fn, args, rv) ==
  [depth |-> depth, src |-> src, fn |-> fn, args |-> args, ret |-> rv]

(***************************************************************************)
(* comp(gups, name): the function f built for one phase of a composite.    *)
(* S maps every composite to the array its five dispatchers close over.    *)
(* Apply calls any function value; comp_f is the loop of f over the array, *)
(* from element i on, with the current args and result.                    *)
(***************************************************************************)
RECURSIVE Apply(_, _, _, _, _, _), comp_f(_, _, _, _, _, _, _, _)

\* slips of the loop.  NoForward: the result is not carried into args[0].
RECURSIVE comp_f_NoForward(_, _, _, _, _, _, _, _)
comp_f_NoForward(G, S, gs, name, i, args, result, depth) ==
  LET forward == name = "enter" \/ name = "select" IN
  IF i > Len(gs)
    THEN [log |-> <<>>, ret |-> IF forward THEN result ELSE Undefined, thrown |-> FALSE]
    ELSE
      LET g == Getter(name, G, gs[i]) IN
      IF Truthy(g) /\ g # empty /\ g # identity
        THEN LET r == Apply(G, S, gs[i], g, args, depth) IN
             IF r.thrown
               THEN r
               ELSE LET rest == comp_f_NoForward(G, S, gs, name, i + 1, args,
                                                 r.ret, depth)
                    IN [rest EXCEPT !.log = r.log \o rest.log]
        ELSE comp_f_NoForward(G, S, gs, name, i + 1, args, result, depth)

\* NoSkip: the sentinels are called like any other function.
RECURSIVE comp_f_NoSkip(_, _, _, _, _, _, _, _)
comp_f_NoSkip(G, S, gs, name, i, args, result, depth) ==
  LET forward == name = "enter" \/ name = "select" IN
  IF i > Len(gs)
    THEN [log |-> <<>>, ret |-> IF forward THEN result ELSE Undefined, thrown |-> FALSE]
    ELSE
      LET g == Getter(name, G, gs[i]) IN
      IF Truthy(g)
        THEN LET r == Apply(G, S, gs[i], g, args, depth) IN
             IF r.thrown
               THEN r
               ELSE LET rest == comp_f_NoSkip(G, S, gs, name, i + 1,
                                              IF forward THEN SetFirst(args, r.ret) ELSE args,
                                              r.ret, depth)
                    IN [rest EXCEPT !.log = r.log \o rest.log]
        ELSE comp_f_NoSkip(G, S, gs, name, i + 1, args, result, depth)

\* a slip of f: an exception of a source is caught and the loop goes on
RECURSIVE comp_f_Catches(_, _, _, _, _, _, _, _)
comp_f_Catches(G, S, gs, name, i, args, result, depth) ==
  LET forward == name = "enter" \/ name = "select" IN
  IF i > Len(gs)
    THEN [log |-> <<>>, ret |-> IF forward THEN result ELSE Undefined, thrown |-> FALSE]
    ELSE
      LET g == Getter(name, G, gs[i]) IN
      IF Truthy(g) /\ g # empty /\ g # identity
        THEN LET r == Apply(G, S, gs[i], g, args, depth) IN
             IF r.thrown
               THEN LET rest == comp_f_Catches(G, S, gs, name, i + 1, args, result, depth)
                    IN [rest EXCEPT !.log = r.log \o rest.log]
               ELSE LET rest == comp_f_Catches(G, S, gs, name, i + 1,
                                       IF forward THEN SetFirst(args, r.ret) ELSE args,
                                       r.ret, depth)
                    IN [rest EXCEPT !.log = r.log \o rest.log]
        ELSE comp_f_Catches(G, S, gs, name, i + 1, args, result, depth)

comp_f(G, S, gs, name, i, args, result, depth) ==
  LET forward == name = "enter" \/ name = "select" IN
  IF i > Len(gs)
    THEN [log |-> <<>>, ret |-> IF forward THEN result ELSE Undefined, thrown |-> FALSE]
    ELSE
      LET g == Getter(name, G, gs[i]) IN
      IF Truthy(g) /\ g # empty /\ g # identity
        THEN LET r == Apply(G, S, gs[i], g, args, depth) IN
             IF r.thrown
               THEN r
               ELSE LET rest == comp_f(G, S, gs, name, i + 1,
                                       IF forward THEN SetFirst(args, r.ret) ELSE args,
                                       r.ret, depth)
                    IN [rest EXCEPT !.log = r.log \o rest.log]
        ELSE comp_f(G, S, gs, name, i + 1, args, result, depth)

Apply(G, S, src, fn, args, depth) ==
  CASE fn.k \in {"user", "tuser"} ->
         [log |-> <<CallEntry(depth, src, fn, args, UserRet(fn, args))>>,
          ret |-> UserRet(fn, args), thrown |-> FALSE]
    [] fn.k = "thrower" ->
         [log |-> <<CallEntry(depth, src, fn, args, Exception)>>,
          ret |-> Exception, thrown |-> TRUE]
    [] fn.k \in {"append", "remove"} ->
         LET v == IF Len(args) = 0 THEN Undefined ELSE Append(args[1], fn.k) IN
         [log |-> <<CallEntry(depth, src, fn, args, v)>>, ret |-> v, thrown |-> FALSE]
    [] fn.k = "identity" ->
         LET v == IF Len(args) = 0 THEN Undefined ELSE args[1] IN
         [log |-> <<CallEntry(depth, src, fn, args, v)>>, ret |-> v, thrown |-> FALSE]
    [] fn.k = "empty" ->
         [log |-> <<CallEntry(depth, src, fn, args, Undefined)>>,
          ret |-> Undefined, thrown |-> FALSE]
    [] fn.k = "comp" ->
         LET r == comp_f(G, S, S[fn.n], fn.ph, 1, args, Undefined, depth + 1) IN
         [r EXCEPT !.log = <<CallEntry(depth, src, fn, args, r.ret)>> \o r.log]
    [] OTHER ->
         \* calling null: a TypeError
         [log |-> <<>>, ret |-> TypeError, thrown |-> TRUE]

comp(g, name) == Dispatcher(g, name)

(***************************************************************************)
(* The enumerable properties of a factory: its six accessors, and whatever *)
(* the user has attached to it.  P maps every factory to its properties, a *)
(* function from property names to values.                                 *)
(***************************************************************************)
\* the methods a factory carries
FactoryMethods == PhaseNames \cup {"update"}

\* the accessor `name` that belongs to factory g, and a value the user
\* attached to factory g
AccessorOf(g, name) == [k |-> "accessor", n |-> g, ph |-> name]
ValueOf(g) == [k |-> "value", n |-> g, ph |-> ""]

\* the properties of a factory just made by gup()
FreshProps(g) == [name \in FactoryMethods |-> AccessorOf(g, name)]

\* the names the property names are tested against in the merge
nonEnumerableProps_NoUpdate ==
  {"valueOf", "isPrototypeOf", "toString", "toLocaleString",
   "propertyIsEnumerable", "hasOwnProperty",
   "pre", "exit", "enter", "post", "select"}

nonEnumerableProps ==
  {"valueOf", "isPrototypeOf", "toString", "toLocaleString",
   "propertyIsEnumerable", "hasOwnProperty",
   "pre", "exit", "enter", "post", "update", "select"}

\* the extend loop of compose from source number i on: acc is the
\* properties of the composite so far
RECURSIVE extend_from(_, _, _, _)
extend_from(P, acc, sources, i) ==
  IF i > Len(sources)
    THEN acc
    ELSE LET source == P[sources[i]]
             copied == {k \in DOMAIN source : k \notin nonEnumerableProps}
         IN extend_from(P,
                        [k \in DOMAIN acc \cup copied |->
                           IF k \in copied THEN source[k] ELSE acc[k]],
                        sources, i + 1)

\* a slip of the extend loop: the sources are read from right to left
compose_extend_RightToLeft(P, g, sources) ==
  [x \in DOMAIN P \cup {g} |->
     IF x = g THEN extend_from(P, FreshProps(g), Reverse(sources), 1) ELSE P[x]]

\* the properties after compose(...sources) has made the composite g
compose_extend(P, g, sources) ==
  [x \in DOMAIN P \cup {g} |->
     IF x = g THEN extend_from(P, FreshProps(g), sources, 1) ELSE P[x]]

(***************************************************************************)
(* compose(...sources): a fresh factory whose five phases are dispatchers  *)
(* over the reversed sources.  Returns the new factories, the new closure  *)
(* arrays and the id of the composite.                                     *)
(***************************************************************************)
\* slips of compose.  InPlace: the first source is extended, no factory is
\* made
compose_InPlace(G, S, sources) ==
  LET g == IF Len(sources) > 0 THEN sources[1] ELSE Cardinality(DOMAIN G) + 1
      G0 == [x \in DOMAIN G \cup {g} |-> IF x \in DOMAIN G THEN G[x] ELSE FreshGup]
      reversed == Reverse(sources)
      G1 == gup_select(G0, g, <<comp(g, "select")>>).G
      G2 == gup_pre(G1, g, <<comp(g, "pre")>>).G
      G3 == gup_exit(G2, g, <<comp(g, "exit")>>).G
      G4 == gup_enter(G3, g, <<comp(g, "enter")>>).G
      G5 == gup_post(G4, g, <<comp(g, "post")>>).G
  IN [G |-> G5,
      S |-> [x \in DOMAIN S \cup {g} |-> IF x = g THEN reversed ELSE S[x]],
      g |-> g]

\* NoReverse: the sources are not reversed
compose_NoReverse(G, S, sources) ==
  LET g == Cardinality(DOMAIN G) + 1
      G0 == [x \in DOMAIN G \cup {g} |-> IF x = g THEN FreshGup ELSE G[x]]
      G1 == gup_select(G0, g, <<comp(g, "select")>>).G
      G2 == gup_pre(G1, g, <<comp(g, "pre")>>).G
      G3 == gup_exit(G2, g, <<comp(g, "exit")>>).G
      G4 == gup_enter(G3, g, <<comp(g, "enter")>>).G
      G5 == gup_post(G4, g, <<comp(g, "post")>>).G
  IN [G |-> G5,
      S |-> [x \in DOMAIN S \cup {g} |-> IF x = g THEN sources ELSE S[x]],
      g |-> g]

compose(G, S, sources) ==
  LET g == Cardinality(DOMAIN G) + 1
      G0 == [x \in DOMAIN G \cup {g} |-> IF x = g THEN FreshGup ELSE G[x]]
      reversed == Reverse(sources)
      G1 == gup_select(G0, g, <<comp(g, "select")>>).G
      G2 == gup_pre(G1, g, <<comp(g, "pre")>>).G
      G3 == gup_exit(G2, g, <<comp(g, "exit")>>).G
      G4 == gup_enter(G3, g, <<comp(g, "enter")>>).G
      G5 == gup_post(G4, g, <<comp(g, "post")>>).G
  IN [G |-> G5,
      S |-> [x \in DOMAIN S \cup {g} |-> IF x = g THEN reversed ELSE S[x]],
      g |-> g]

(***************************************************************************)
(* The selections and transitions a bound instance works on.  They belong  *)
(* to the host library; an instance only calls their methods.  A method    *)
(* call is written behind its receiver and arguments, so every view shows  *)
(* how it was obtained.                                                    *)
(***************************************************************************)
Sel == <<"sel">>
Trans == <<"trans">>

\* !!v.selection: v is a transition, or something a user function returned
\* as one
HasSelection(v) ==
  /\ v # Undefined
  /\ \/ v[Len(v)] \in {"trans", "transition"}
     \/ \E i \in 1..NUser : v[Len(v)] = TransitionTags[i]

\* v.selection()
selection_of(v) == Append(v, "selection")
\* v.data(data, key)
data_join(v, d, key) == v \o <<d, key, "data">>
\* v.exit(), v.enter()
exit_of(v) == Append(v, "exit")
enter_of(v) == Append(v, "enter")
\* e.merge(v)
merge(e, v) == e \o v \o <<"merge">>
\* v.transition(context)
transition(v, context) == v \o context \o <<"transition">>

\* more[0]
KeyOf(more) == IF Len(more) = 0 THEN "undefined" ELSE more[1]

ExtEntry(name, args, rv) == CallEntry(0, 0, External(name), args, rv)

(***************************************************************************)
(* The elements of a container and the views of a positional join.  The    *)
(* join itself belongs to the selection library: with m elements selected  *)
(* and n data, the first min(m, n) elements persist, n - m data enter and  *)
(* m - n elements exit.  A container records its elements, the data array  *)
(* and the key last joined to them and the enter function of that call;    *)
(* the elements of the opaque selections Sel and Trans are not tracked.    *)
(***************************************************************************)
\* the length of a data array: d1 is ["a", "b"], d2 is ["a"]
DataLength(d) ==
  CASE d = "d1" -> 2
    [] d = "d2" -> 1
    [] OTHER -> 0

Max(a, b) == IF a >= b THEN a ELSE b
Min(a, b) == IF a <= b THEN a ELSE b

NoJoin == [data |-> "none", key |-> "undefined", enter |-> Null]
Untracked == [tracked |-> FALSE, size |-> 0, last |-> NoJoin]
EmptyContainer == [tracked |-> TRUE, size |-> 0, last |-> NoJoin]

\* where the join was applied in the term v, 0 if nowhere
JoinAt(v) ==
  LET J == {j \in 3..Len(v) : v[j] = "data"} IN
  IF J = {} THEN 0 ELSE CHOOSE j \in J : \A i \in J : j <= i

\* the number of elements of v, a view of a container with m elements
Size(v, m) ==
  LET j == JoinAt(v) IN
  IF j = 0
    THEN m
    ELSE LET n == DataLength(v[j - 2]) IN
         CASE j < Len(v) /\ v[j + 1] = "enter" -> Max(n - m, 0)
           [] j < Len(v) /\ v[j + 1] = "exit" -> Max(m - n, 0)
           [] OTHER -> Min(m, n)

\* the elements left after the calls of l, for a container that had m
\* elements when it was joined
RECURSIVE ElementsAfter(_, _, _)
ElementsAfter(l, m, acc) ==
  IF l = <<>>
    THEN acc
    ELSE LET e == Head(l)
             k == IF Len(e.args) = 0 THEN 0 ELSE Size(e.args[1], m)
         IN ElementsAfter(Tail(l), m,
                          CASE e.fn = Appender -> acc + k
                            [] e.fn = Remover -> Max(acc - k, 0)
                            [] OTHER -> acc)

\* the container after a call that observed l and ran with enter function f
Settle(c, l, f) ==
  LET J == {i \in 1..Len(l) : l[i].fn = External("data")} IN
  IF ~c.tracked \/ J = {}
    THEN c
    ELSE LET i == CHOOSE i \in J : TRUE IN
         [c EXCEPT !.size = ElementsAfter(l, c.size, c.size),
                   !.last = [data |-> l[i].args[2][1],
                             key |-> IF l[i].args[3] = <<>> THEN "undefined"
                                                            ELSE l[i].args[3][1],
                             enter |-> f]]

(***************************************************************************)
(* State.                                                                  *)
(*   gups      the phase slots of every factory created so far             *)
(*   props     the enumerable properties of every factory                  *)
(*   srcs      for every composite, the (reversed) array of sources its    *)
(*             dispatchers close over                                      *)
(*   composed  for every composite, the argument list compose was called   *)
(*             with (history)                                              *)
(*   call      the last method call made on a factory                      *)
(*   ret       what that call returned                                     *)
(*   fcall     the last call of a phase function made by a caller          *)
(*   log       the function calls observed during fcall, in order          *)
(*   result    what fcall returned                                         *)
(*   thrown    whether fcall ended with an exception                       *)
(*   callables the bound instances: their factory and their closure        *)
(*             variables data and more                                     *)
(*   pc        where the running instance call stands                      *)
(*   frame     the local variables of the running instance call            *)
(*   d3transition  whether selections expose a transition method           *)
(*   dom       the elements of the container the instance is called on,    *)
(*             where they are tracked                                      *)
(***************************************************************************)
VARIABLES gups, props, srcs, composed, call, ret, fcall, log, result, thrown,
          callables, pc, frame, d3transition, dom

vars == <<gups, props, srcs, composed, call, ret, fcall, log, result, thrown,
          callables, pc, frame, d3transition, dom>>

instanceVars == <<callables, pc, frame, d3transition, dom>>

NoCall == [op |-> "none", g |-> 0, args |-> <<>>]
NoFcall == [g |-> 0, ph |-> "", fn |-> Null, args |-> <<>>]
NoComposites == [g \in {} |-> <<>>]
NoFrame == [c |-> 0, args |-> <<>>, context |-> Undefined, shouldTransition |-> FALSE,
            selection |-> Undefined, d_enter |-> Undefined, d_post |-> Undefined]

\* no instance is bound and none is running
NoInstance ==
  /\ callables = <<>>
  /\ pc = "idle"
  /\ frame = NoFrame
  /\ d3transition = FALSE
  /\ dom = Untracked

ArgLists(n) == UNION {[1..k -> ArgVals] : k \in 0..n}

\* nothing has called a phase function
NoFunctionCalled ==
  /\ fcall = NoFcall
  /\ log = <<>>
  /\ result = Undefined
  /\ thrown = FALSE

\* a method call on a factory: no phase function call is on record
ClearFunctionCall ==
  /\ fcall' = NoFcall
  /\ log' = <<>>
  /\ result' = Undefined
  /\ thrown' = FALSE

\* var s = gup(): one fresh factory, nothing called on it yet
InitAccessors ==
  /\ gups = [g \in {1} |-> FreshGup]
  /\ props = [g \in DOMAIN gups |-> FreshProps(g)]
  /\ srcs = NoComposites
  /\ composed = NoComposites
  /\ call = NoCall
  /\ ret = RetNone
  /\ NoFunctionCalled
  /\ NoInstance

\* s.select(...), s.pre(...), s.exit(...), s.enter(...), s.post(...)
CallAccessor ==
  \E g \in DOMAIN gups, name \in PhaseNames, args \in ArgLists(1) :
    LET r == Accessor(name, gups, g, args) IN
      /\ gups' = r.G
      /\ ret' = r.ret
      /\ call' = [op |-> name, g |-> g, args |-> args]
      /\ UNCHANGED <<props, srcs, composed, fcall, log, result, thrown, instanceVars>>

\* s.update(...)
CallUpdate ==
  \E g \in DOMAIN gups, args \in ArgLists(MaxUpdateArgs) :
    LET r == gup_update(gups, g, args) IN
      /\ gups' = r.G
      /\ ret' = r.ret
      /\ call' = [op |-> "update", g |-> g, args |-> args]
      /\ UNCHANGED <<props, srcs, composed, fcall, log, result, thrown, instanceVars>>

NextAccessors == CallAccessor \/ CallUpdate

SpecAccessors == InitAccessors /\ [][NextAccessors]_vars

(***************************************************************************)
(* Composition: NSources factories are configured, composed once, and the  *)
(* phase functions of the composite are called.  The dispatchers of        *)
(* different phases share no state, so the sources are configured for one  *)
(* phase name at a time.                                                   *)
(***************************************************************************)
Sources == 1..NSources
Composites == DOMAIN srcs

\* the argument lists compose is called with: sources, each at most once
SourceLists ==
  {q \in UNION {[1..k -> Sources] : k \in 0..NSources} :
     \A i, j \in 1..Len(q) : i # j => q[i] # q[j]}

\* the argument lists a phase function is called with: a container and the
\* pass-through arguments
X == <<"x">>
PassThrough == <<"a">>
CallArgs == {<<X>>, <<X, PassThrough>>}

InitCompose ==
  /\ gups = [g \in Sources |-> FreshGup]
  /\ props = [g \in DOMAIN gups |-> FreshProps(g)]
  /\ srcs = NoComposites
  /\ composed = NoComposites
  /\ call = NoCall
  /\ ret = RetNone
  /\ NoFunctionCalled
  /\ NoInstance

\* s_i.P(f) on a source
ConfigureSource ==
  \E g \in Sources, name \in PhaseNames, v \in ArgVals \cup {Thrower} :
    LET r == Accessor(name, gups, g, <<v>>) IN
      /\ \A h \in Sources, p \in PhaseNames : gups[h][p] # Null => p = name
      /\ gups' = r.G
      /\ ret' = r.ret
      /\ call' = [op |-> name, g |-> g, args |-> <<v>>]
      /\ ClearFunctionCall
      /\ UNCHANGED <<props, srcs, composed, instanceVars>>

\* c = compose(s_1, ..., s_n)
Compose ==
  \E sources \in SourceLists :
    LET r == compose(gups, srcs, sources) IN
      /\ Composites = {}
      /\ gups' = r.G
      /\ props' = compose_extend(props, r.g, sources)
      /\ srcs' = r.S
      /\ composed' = [x \in DOMAIN composed \cup {r.g} |->
                        IF x = r.g THEN sources ELSE composed[x]]
      /\ call' = [op |-> "compose", g |-> r.g, args |-> <<>>]
      /\ ret' = RetThis(r.g)
      /\ ClearFunctionCall
      /\ UNCHANGED instanceVars

\* c.P()(x, ...): the composite's phase function is called
CallPhaseFunction ==
  \E c \in Composites, name \in PhaseNames, args \in CallArgs :
    LET fn == Getter(name, gups, c)
        r == Apply(gups, srcs, 0, fn, args, 0)
    IN /\ fcall' = [g |-> c, ph |-> name, fn |-> fn, args |-> args]
       /\ log' = r.log
       /\ result' = r.ret
       /\ thrown' = r.thrown
       /\ call' = NoCall
       /\ ret' = RetNone
       /\ UNCHANGED <<gups, props, srcs, composed, instanceVars>>

NextCompose == ConfigureSource \/ Compose \/ CallPhaseFunction

SpecCompose == InitCompose /\ [][NextCompose]_vars

(***************************************************************************)
(* The property extend of compose: the user attaches properties to the     *)
(* sources, composes them once and then configures the composite.          *)
(***************************************************************************)
\* the property names the user attaches values to
CustomNames == {"foo", "data"}

\* a factory with every phase configured
ConfiguredGup == [p \in PhaseNames |-> User(1)]

InitExtend ==
  /\ gups \in [Sources -> {FreshGup, ConfiguredGup}]
  /\ props = [g \in DOMAIN gups |-> FreshProps(g)]
  /\ srcs = NoComposites
  /\ composed = NoComposites
  /\ call = NoCall
  /\ ret = RetNone
  /\ NoFunctionCalled
  /\ NoInstance

\* s_i[k] = v
SetProperty ==
  \E g \in Sources, k \in CustomNames :
    /\ Composites = {}
    /\ props' = [props EXCEPT ![g] =
                   [x \in DOMAIN props[g] \cup {k} |->
                      IF x = k THEN ValueOf(g) ELSE props[g][x]]]
    /\ call' = [op |-> "assign", g |-> g, args |-> <<>>]
    /\ ret' = RetNone
    /\ UNCHANGED <<gups, srcs, composed, fcall, log, result, thrown, instanceVars>>

\* c.P(f) on the composite, for one phase P
ConfigureComposite ==
  \E c \in Composites, name \in PhaseNames, v \in ArgVals :
    LET r == Accessor(name, gups, c, <<v>>) IN
      /\ \A p \in PhaseNames : gups[c][p] # Dispatcher(c, p) => p = name
      /\ gups' = r.G
      /\ ret' = r.ret
      /\ call' = [op |-> name, g |-> c, args |-> <<v>>]
      /\ UNCHANGED <<props, srcs, composed, fcall, log, result, thrown, instanceVars>>

NextExtend == SetProperty \/ Compose \/ ConfigureComposite

SpecExtend == InitExtend /\ [][NextExtend]_vars

(***************************************************************************)
(* A bound instance _gup called on a selection or a transition.  One       *)
(* factory is configured through its setters; the instance bound from it   *)
(* is called and runs the five phases, one step per phase.  A call runs to *)
(* its end before the caller can do anything else.                         *)
(***************************************************************************)
\* what the instance is called on, and the pass-through arguments
Contexts == {Sel, Trans}
PassArgs == {<<>>, <<PassThrough>>, <<PassThrough, <<"b">>>>}
\* the arguments the factory was bound with: data, then more
BoundData == {"d1"}
BoundMore == {<<>>, <<"k1">>, <<"k1", "m1">>}

\* what the data accessor of the instance is given: nothing, or a data array
\* followed by more
DataVals == BoundData \cup {"d2"}
MoreVals == BoundMore \cup {<<"k2">>}
DataArgLists == {<<>>} \cup {<<d>> \o m : d \in DataVals, m \in MoreVals}

\* the methods a bound instance carries
InstanceMethods == {"data"}

\* Return values of the instance's data accessor: the instance itself
\* (`this`), or the array [data, ...more]
RetInstance(c) == [t |-> "instance", g |-> c, fn |-> Null, tup |-> <<>>]
RetArray(s) == [t |-> "array", g |-> 0, fn |-> Null, tup |-> s]

\* the methods of a returned object
MethodsOf(r) ==
  CASE r.t = "this" -> FactoryMethods
    [] r.t = "instance" -> InstanceMethods
    [] OTHER -> {}

\* slips of the data accessor.  KeepsMore: a setter call without more
\* arguments keeps the old ones.
_gup_data_KeepsMore(C, c, args) ==
  IF Len(args) # 0
    THEN [C |-> [C EXCEPT ![c].data = args[1],
                          ![c].more = IF Len(args) > 1 THEN Tail(args) ELSE @],
          ret |-> RetInstance(c)]
    ELSE [C |-> C, ret |-> RetArray(<<C[c].data>> \o C[c].more)]

\* ReturnsFactory: the setter returns the factory the instance was made by.
_gup_data_ReturnsFactory(C, c, args) ==
  IF Len(args) # 0
    THEN [C |-> [C EXCEPT ![c].data = args[1], ![c].more = Tail(args)],
          ret |-> RetThis(C[c].g)]
    ELSE [C |-> C, ret |-> RetArray(<<C[c].data>> \o C[c].more)]

\* NoAssign: the setter returns the instance and assigns nothing.
_gup_data_NoAssign(C, c, args) ==
  IF Len(args) # 0
    THEN [C |-> C, ret |-> RetInstance(c)]
    ELSE [C |-> C, ret |-> RetArray(<<C[c].data>> \o C[c].more)]

\* Shared: data and more are kept by the factory, for all its instances.
_gup_data_Shared(C, c, args) ==
  IF Len(args) # 0
    THEN [C |-> [x \in DOMAIN C |->
                   IF C[x].g = C[c].g
                     THEN [C[x] EXCEPT !.data = args[1], !.more = Tail(args)]
                     ELSE C[x]],
          ret |-> RetInstance(c)]
    ELSE [C |-> C, ret |-> RetArray(<<C[c].data>> \o C[c].more)]

\* i.data(..._): C is the state of all instances, c the instance the method
\* is called on
_gup_data(C, c, args) ==
  IF Len(args) # 0
    THEN [C |-> [C EXCEPT ![c].data = args[1], ![c].more = Tail(args)],
          ret |-> RetInstance(c)]
    ELSE [C |-> C, ret |-> RetArray(<<C[c].data>> \o C[c].more)]

\* what a setter of the factory is given: for select and enter also a
\* function that returns a transition
SlotVals(name) ==
  IF name \in {"select", "enter"} THEN ArgVals \cup TUserFns ELSE ArgVals

\* var s = gup(), i = s(data, ...more)
Init ==
  /\ gups = [g \in {1} |-> FreshGup]
  /\ props = [g \in DOMAIN gups |-> FreshProps(g)]
  /\ srcs = NoComposites
  /\ composed = NoComposites
  /\ callables \in [{1} -> [g : {1}, data : BoundData, more : BoundMore]]
  /\ call = [op |-> "bind", g |-> 1, args |-> <<callables[1].data>> \o callables[1].more]
  /\ ret = RetInstance(1)
  /\ NoFunctionCalled
  /\ pc = "idle"
  /\ frame = NoFrame
  /\ d3transition \in BOOLEAN
  /\ dom = Untracked

\* s.P(f), while no instance call is running
Configure ==
  \E g \in DOMAIN gups, name \in PhaseNames :
    \E v \in SlotVals(name) :
      LET r == Accessor(name, gups, g, <<v>>) IN
        /\ pc = "idle"
        /\ gups' = r.G
        /\ ret' = r.ret
        /\ call' = [op |-> name, g |-> g, args |-> <<v>>]
        /\ ClearFunctionCall
        /\ pc' = "idle"
        /\ frame' = NoFrame
        /\ UNCHANGED <<props, srcs, composed, callables, d3transition, dom>>

\* i.data(..._), while no instance call is running
CallData ==
  \E c \in DOMAIN callables, args \in DataArgLists :
    LET r == _gup_data(callables, c, args) IN
      /\ pc = "idle"
      /\ callables' = r.C
      /\ ret' = r.ret
      /\ call' = [op |-> "data", g |-> c, args |-> args]
      /\ ClearFunctionCall
      /\ pc' = "idle"
      /\ frame' = NoFrame
      /\ UNCHANGED <<gups, props, srcs, composed, d3transition, dom>>

\* the running call goes on to the next phase
Step(newFrame, newLog, newPc) ==
  /\ frame' = newFrame
  /\ log' = newLog
  /\ pc' = newPc
  /\ UNCHANGED <<gups, props, srcs, composed, call, ret, fcall, result, thrown,
                 callables, d3transition, dom>>

\* the running call ends with an exception
Throw(newLog, e) ==
  /\ log' = newLog
  /\ pc' = "done"
  /\ thrown' = TRUE
  /\ result' = e
  /\ UNCHANGED <<gups, props, srcs, composed, call, ret, fcall, frame,
                 callables, d3transition, dom>>

\* the factory of the running instance
Running == callables[frame.c].g

\* selection.transition
HasTransitionMethod(v) == d3transition

\* a slip of context resolution: the phases work on the argument itself
_gup_start_OnArgument ==
  \E c \in DOMAIN callables, context \in Contexts, args \in PassArgs :
    LET shouldTransition == HasSelection(context)
        selection == context
    IN /\ pc = "idle"
       /\ frame' = [c |-> c, args |-> args, context |-> context,
                    shouldTransition |-> shouldTransition, selection |-> selection,
                    d_enter |-> Undefined, d_post |-> Undefined]
       /\ log' = IF shouldTransition
                   THEN <<ExtEntry("selection", <<context>>, selection)>>
                   ELSE <<>>
       /\ pc' = "select"
       /\ fcall' = [g |-> callables[c].g, ph |-> "", fn |-> [k |-> "bound", n |-> c, ph |-> ""],
                    args |-> <<context>> \o args]
       /\ result' = Undefined
       /\ thrown' = FALSE
       /\ call' = NoCall
       /\ ret' = RetNone
       /\ UNCHANGED <<gups, props, srcs, composed, callables, d3transition, dom>>

\* another slip of context resolution: the context is not shifted off the
\* arguments
_gup_start_NoShift ==
  \E c \in DOMAIN callables, context \in Contexts, args \in PassArgs :
    LET shouldTransition == HasSelection(context)
        selection == IF shouldTransition THEN selection_of(context) ELSE context
    IN /\ pc = "idle"
       /\ frame' = [c |-> c, args |-> <<context>> \o args, context |-> context,
                    shouldTransition |-> shouldTransition, selection |-> selection,
                    d_enter |-> Undefined, d_post |-> Undefined]
       /\ log' = IF shouldTransition
                   THEN <<ExtEntry("selection", <<context>>, selection)>>
                   ELSE <<>>
       /\ pc' = "select"
       /\ fcall' = [g |-> callables[c].g, ph |-> "", fn |-> [k |-> "bound", n |-> c, ph |-> ""],
                    args |-> <<context>> \o args]
       /\ result' = Undefined
       /\ thrown' = FALSE
       /\ call' = NoCall
       /\ ret' = RetNone
       /\ UNCHANGED <<gups, props, srcs, composed, callables, d3transition, dom>>

\* i(context, ...args): context resolution
_gup_start ==
  \E c \in DOMAIN callables, context \in Contexts, args \in PassArgs :
    LET shouldTransition == HasSelection(context)
        selection == IF shouldTransition THEN selection_of(context) ELSE context
    IN /\ pc = "idle"
       /\ frame' = [c |-> c, args |-> args, context |-> context,
                    shouldTransition |-> shouldTransition, selection |-> selection,
                    d_enter |-> Undefined, d_post |-> Undefined]
       /\ log' = IF shouldTransition
                   THEN <<ExtEntry("selection", <<context>>, selection)>>
                   ELSE <<>>
       /\ pc' = "select"
       /\ fcall' = [g |-> callables[c].g, ph |-> "", fn |-> [k |-> "bound", n |-> c, ph |-> ""],
                    args |-> <<context>> \o args]
       /\ result' = Undefined
       /\ thrown' = FALSE
       /\ call' = NoCall
       /\ ret' = RetNone
       /\ UNCHANGED <<gups, props, srcs, composed, callables, d3transition, dom>>

\* a slip of phase 0: a transition returned by select yields its selection
\* but does not become the context
_gup_select_NoPromote ==
  /\ pc = "select"
  /\ LET select == gups[Running]["select"] IN
     IF Truthy(select) /\ select # identity
       THEN LET r == Apply(gups, srcs, 0, select, <<frame.selection>> \o frame.args, 0) IN
            IF r.thrown \/ r.ret = Undefined
              THEN Throw(log \o r.log, IF r.thrown THEN r.ret ELSE TypeError)
              ELSE IF HasSelection(r.ret)
                THEN Step([frame EXCEPT !.selection = selection_of(r.ret)],
                          log \o r.log
                              \o <<ExtEntry("selection", <<r.ret>>, selection_of(r.ret))>>,
                          "join")
                ELSE Step([frame EXCEPT !.selection = r.ret], log \o r.log, "join")
       ELSE Step(frame, log, "join")

\* Phase 0
_gup_select ==
  /\ pc = "select"
  /\ LET select == gups[Running]["select"] IN
     IF Truthy(select) /\ select # identity
       THEN LET r == Apply(gups, srcs, 0, select, <<frame.selection>> \o frame.args, 0) IN
            IF r.thrown \/ r.ret = Undefined
              THEN Throw(log \o r.log, IF r.thrown THEN r.ret ELSE TypeError)
              ELSE IF HasSelection(r.ret)
                THEN Step([frame EXCEPT !.shouldTransition = TRUE,
                                        !.context = r.ret,
                                        !.selection = selection_of(r.ret)],
                          log \o r.log
                              \o <<ExtEntry("selection", <<r.ret>>, selection_of(r.ret))>>,
                          "join")
                ELSE Step([frame EXCEPT !.selection = r.ret], log \o r.log, "join")
       ELSE Step(frame, log, "join")

\* a slip of the data-join: all the bound arguments are passed to the join
_gup_join_SpreadsMore ==
  /\ pc = "join"
  /\ LET data == callables[frame.c].data
         more == callables[frame.c].more
         selection == frame.selection \o <<data>> \o more \o <<"data">>
     IN Step([frame EXCEPT !.selection = selection],
             Append(log, ExtEntry("data", <<frame.selection, <<data>>, more>>,
                                  selection)),
             "pre")

\* another slip of the data-join: the key function is passed first
_gup_join_KeyFirst ==
  /\ pc = "join"
  /\ LET data == callables[frame.c].data
         more == callables[frame.c].more
         selection == data_join(frame.selection, KeyOf(more), data)
     IN Step([frame EXCEPT !.selection = selection],
             Append(log, ExtEntry("data", <<frame.selection, <<KeyOf(more)>>, <<data>>>>,
                                  selection)),
             "pre")

\* The data-join
_gup_join ==
  /\ pc = "join"
  /\ LET data == callables[frame.c].data
         more == callables[frame.c].more
         selection == data_join(frame.selection, data, KeyOf(more))
     IN Step([frame EXCEPT !.selection = selection],
             Append(log, ExtEntry("data", <<frame.selection, <<data>>, <<KeyOf(more)>>>>,
                                  selection)),
             "pre")

\* a slip of phase 1: the pre function is called though it is the default
_gup_pre_CallsDefault ==
  /\ pc = "pre"
  /\ LET pre == Getter("pre", gups, Running) IN
     IF Truthy(pre)
       THEN LET forwarded == frame.shouldTransition /\ HasTransitionMethod(frame.selection)
                d_pre == IF forwarded
                           THEN transition(frame.selection, frame.context)
                           ELSE frame.selection
                l == IF forwarded
                       THEN <<ExtEntry("transition", <<frame.selection, frame.context>>, d_pre)>>
                       ELSE <<>>
                r == Apply(gups, srcs, 0, pre, <<d_pre>> \o frame.args, 0)
            IN IF r.thrown
                 THEN Throw(log \o l \o r.log, r.ret)
                 ELSE Step(frame, log \o l \o r.log, "exit")
       ELSE Step(frame, log, "exit")

\* another slip of phase 1: an exception of the pre function is swallowed
_gup_pre_Swallows ==
  /\ pc = "pre"
  /\ LET pre == gups[Running]["pre"] IN
     IF Truthy(pre) /\ pre # empty
       THEN LET forwarded == frame.shouldTransition /\ HasTransitionMethod(frame.selection)
                d_pre == IF forwarded
                           THEN transition(frame.selection, frame.context)
                           ELSE frame.selection
                l == IF forwarded
                       THEN <<ExtEntry("transition", <<frame.selection, frame.context>>, d_pre)>>
                       ELSE <<>>
                r == Apply(gups, srcs, 0, pre, <<d_pre>> \o frame.args, 0)
            IN IF r.thrown
                 THEN Step(frame, log \o l \o r.log, "exit")
                 ELSE Step(frame, log \o l \o r.log, "exit")
       ELSE Step(frame, log, "exit")

\* Phase 1
_gup_pre ==
  /\ pc = "pre"
  /\ LET pre == gups[Running]["pre"] IN
     IF Truthy(pre) /\ pre # empty
       THEN LET forwarded == frame.shouldTransition /\ HasTransitionMethod(frame.selection)
                d_pre == IF forwarded
                           THEN transition(frame.selection, frame.context)
                           ELSE frame.selection
                l == IF forwarded
                       THEN <<ExtEntry("transition", <<frame.selection, frame.context>>, d_pre)>>
                       ELSE <<>>
                r == Apply(gups, srcs, 0, pre, <<d_pre>> \o frame.args, 0)
            IN IF r.thrown
                 THEN Throw(log \o l \o r.log, r.ret)
                 ELSE Step(frame, log \o l \o r.log, "exit")
       ELSE Step(frame, log, "exit")

\* a slip of phase 2: the transition is not forwarded to the exiting view
_gup_exit_NoForward ==
  /\ pc = "exit"
  /\ LET exit == gups[Running]["exit"] IN
     IF Truthy(exit) /\ exit # empty
       THEN LET d_exit0 == exit_of(frame.selection)
                forwarded == FALSE
                d_exit == IF forwarded THEN transition(d_exit0, frame.context) ELSE d_exit0
                l == <<ExtEntry("exit", <<frame.selection>>, d_exit0)>>
                       \o IF forwarded
                            THEN <<ExtEntry("transition", <<d_exit0, frame.context>>, d_exit)>>
                            ELSE <<>>
                r == Apply(gups, srcs, 0, exit, <<d_exit>> \o frame.args, 0)
            IN IF r.thrown
                 THEN Throw(log \o l \o r.log, r.ret)
                 ELSE Step(frame, log \o l \o r.log, "enter")
       ELSE Step(frame, log, "enter")

\* another slip of phase 2: the exit function is called on the joined
\* selection
_gup_exit_OnJoined ==
  /\ pc = "exit"
  /\ LET exit == gups[Running]["exit"] IN
     IF Truthy(exit) /\ exit # empty
       THEN LET d_exit0 == frame.selection
                forwarded == frame.shouldTransition /\ HasTransitionMethod(d_exit0)
                d_exit == IF forwarded THEN transition(d_exit0, frame.context) ELSE d_exit0
                l == IF forwarded
                       THEN <<ExtEntry("transition", <<d_exit0, frame.context>>, d_exit)>>
                       ELSE <<>>
                r == Apply(gups, srcs, 0, exit, <<d_exit>> \o frame.args, 0)
            IN IF r.thrown
                 THEN Throw(log \o l \o r.log, r.ret)
                 ELSE Step(frame, log \o l \o r.log, "enter")
       ELSE Step(frame, log, "enter")

\* Phase 2
_gup_exit ==
  /\ pc = "exit"
  /\ LET exit == gups[Running]["exit"] IN
     IF Truthy(exit) /\ exit # empty
       THEN LET d_exit0 == exit_of(frame.selection)
                forwarded == frame.shouldTransition /\ HasTransitionMethod(d_exit0)
                d_exit == IF forwarded THEN transition(d_exit0, frame.context) ELSE d_exit0
                l == <<ExtEntry("exit", <<frame.selection>>, d_exit0)>>
                       \o IF forwarded
                            THEN <<ExtEntry("transition", <<d_exit0, frame.context>>, d_exit)>>
                            ELSE <<>>
                r == Apply(gups, srcs, 0, exit, <<d_exit>> \o frame.args, 0)
            IN IF r.thrown
                 THEN Throw(log \o l \o r.log, r.ret)
                 ELSE Step(frame, log \o l \o r.log, "enter")
       ELSE Step(frame, log, "enter")

\* a slip of phase 3: the transition is forwarded to the entering view
_gup_enter_Forwards ==
  /\ pc = "enter"
  /\ LET enter == gups[Running]["enter"]
         d_enter0 == enter_of(frame.selection)
         l == <<ExtEntry("enter", <<frame.selection>>, d_enter0)>>
     IN
     IF Truthy(enter) /\ enter # identity
       THEN LET r == Apply(gups, srcs, 0, enter,
                           <<IF frame.shouldTransition /\ HasTransitionMethod(d_enter0)
                               THEN transition(d_enter0, frame.context)
                               ELSE d_enter0>> \o frame.args, 0) IN
            IF r.thrown \/ r.ret = Undefined
              THEN Throw(log \o l \o r.log, IF r.thrown THEN r.ret ELSE TypeError)
              ELSE IF HasSelection(r.ret)
                THEN Step([frame EXCEPT !.shouldTransition = TRUE,
                                        !.context = r.ret,
                                        !.d_enter = selection_of(r.ret)],
                          log \o l \o r.log
                              \o <<ExtEntry("selection", <<r.ret>>, selection_of(r.ret))>>,
                          "post")
                ELSE Step([frame EXCEPT !.d_enter = r.ret], log \o l \o r.log, "post")
       ELSE Step([frame EXCEPT !.d_enter = d_enter0], log \o l, "post")

\* another slip of phase 3: a transition returned by enter yields its
\* selection but does not become the context
_gup_enter_NoPromote ==
  /\ pc = "enter"
  /\ LET enter == gups[Running]["enter"]
         d_enter0 == enter_of(frame.selection)
         l == <<ExtEntry("enter", <<frame.selection>>, d_enter0)>>
     IN
     IF Truthy(enter) /\ enter # identity
       THEN LET r == Apply(gups, srcs, 0, enter, <<d_enter0>> \o frame.args, 0) IN
            IF r.thrown \/ r.ret = Undefined
              THEN Throw(log \o l \o r.log, IF r.thrown THEN r.ret ELSE TypeError)
              ELSE IF HasSelection(r.ret)
                THEN Step([frame EXCEPT !.d_enter = selection_of(r.ret)],
                          log \o l \o r.log
                              \o <<ExtEntry("selection", <<r.ret>>, selection_of(r.ret))>>,
                          "post")
                ELSE Step([frame EXCEPT !.d_enter = r.ret], log \o l \o r.log, "post")
       ELSE Step([frame EXCEPT !.d_enter = d_enter0], log \o l, "post")

\* Phase 3
_gup_enter ==
  /\ pc = "enter"
  /\ LET enter == gups[Running]["enter"]
         d_enter0 == enter_of(frame.selection)
         l == <<ExtEntry("enter", <<frame.selection>>, d_enter0)>>
     IN
     IF Truthy(enter) /\ enter # identity
       THEN LET r == Apply(gups, srcs, 0, enter, <<d_enter0>> \o frame.args, 0) IN
            IF r.thrown \/ r.ret = Undefined
              THEN Throw(log \o l \o r.log, IF r.thrown THEN r.ret ELSE TypeError)
              ELSE IF HasSelection(r.ret)
                THEN Step([frame EXCEPT !.shouldTransition = TRUE,
                                        !.context = r.ret,
                                        !.d_enter = selection_of(r.ret)],
                          log \o l \o r.log
                              \o <<ExtEntry("selection", <<r.ret>>, selection_of(r.ret))>>,
                          "post")
                ELSE Step([frame EXCEPT !.d_enter = r.ret], log \o l \o r.log, "post")
       ELSE Step([frame EXCEPT !.d_enter = d_enter0], log \o l, "post")

\* a slip of phase 4: post is called on the entering view, before the merge
_gup_post_BeforeMerge ==
  /\ pc = "post"
  /\ LET post == gups[Running]["post"]
         d_post0 == merge(frame.d_enter, frame.selection)
         forwarded == frame.shouldTransition /\ HasTransitionMethod(d_post0)
         d_post == IF forwarded THEN transition(d_post0, frame.context) ELSE d_post0
         l == <<ExtEntry("merge", <<frame.d_enter, frame.selection>>, d_post0)>>
                \o IF forwarded
                     THEN <<ExtEntry("transition", <<d_post0, frame.context>>, d_post)>>
                     ELSE <<>>
         r == IF Truthy(post) /\ post # empty
                THEN Apply(gups, srcs, 0, post, <<frame.d_enter>> \o frame.args, 0)
                ELSE [log |-> <<>>, ret |-> Undefined, thrown |-> FALSE]
     IN IF r.thrown
          THEN Throw(log \o r.log, r.ret)
          ELSE /\ frame' = [frame EXCEPT !.d_post = d_post]
               /\ log' = log \o r.log \o l
               /\ pc' = "done"
               /\ result' = d_post
               /\ UNCHANGED <<gups, props, srcs, composed, call, ret, fcall, thrown,
                              callables, d3transition, dom>>

\* another slip of phase 4: the merged view is wrapped for the post function
\* only
_gup_post_WrapsForPostOnly ==
  /\ pc = "post"
  /\ LET post == gups[Running]["post"]
         d_post0 == merge(frame.d_enter, frame.selection)
         forwarded == /\ Truthy(post) /\ post # empty
                      /\ frame.shouldTransition /\ HasTransitionMethod(d_post0)
         d_post == IF forwarded THEN transition(d_post0, frame.context) ELSE d_post0
         l == <<ExtEntry("merge", <<frame.d_enter, frame.selection>>, d_post0)>>
                \o IF forwarded
                     THEN <<ExtEntry("transition", <<d_post0, frame.context>>, d_post)>>
                     ELSE <<>>
         r == IF Truthy(post) /\ post # empty
                THEN Apply(gups, srcs, 0, post, <<d_post>> \o frame.args, 0)
                ELSE [log |-> <<>>, ret |-> Undefined, thrown |-> FALSE]
     IN IF r.thrown
          THEN Throw(log \o l \o r.log, r.ret)
          ELSE /\ frame' = [frame EXCEPT !.d_post = d_post]
               /\ log' = log \o l \o r.log
               /\ pc' = "done"
               /\ result' = d_post
               /\ UNCHANGED <<gups, props, srcs, composed, call, ret, fcall, thrown,
                              callables, d3transition, dom>>

\* Phase 4 and the return
_gup_post ==
  /\ pc = "post"
  /\ LET post == gups[Running]["post"]
         d_post0 == merge(frame.d_enter, frame.selection)
         forwarded == frame.shouldTransition /\ HasTransitionMethod(d_post0)
         d_post == IF forwarded THEN transition(d_post0, frame.context) ELSE d_post0
         l == <<ExtEntry("merge", <<frame.d_enter, frame.selection>>, d_post0)>>
                \o IF forwarded
                     THEN <<ExtEntry("transition", <<d_post0, frame.context>>, d_post)>>
                     ELSE <<>>
         r == IF Truthy(post) /\ post # empty
                THEN Apply(gups, srcs, 0, post, <<d_post>> \o frame.args, 0)
                ELSE [log |-> <<>>, ret |-> Undefined, thrown |-> FALSE]
     IN IF r.thrown
          THEN Throw(log \o l \o r.log, r.ret)
          ELSE /\ frame' = [frame EXCEPT !.d_post = d_post]
               /\ log' = log \o l \o r.log
               /\ pc' = "done"
               /\ result' = d_post
               /\ UNCHANGED <<gups, props, srcs, composed, call, ret, fcall, thrown,
                              callables, d3transition, dom>>

\* the call has ended, by return or by exception: the caller goes on
_gup_return ==
  /\ pc = "done"
  /\ pc' = "idle"
  /\ frame' = NoFrame
  /\ ClearFunctionCall
  /\ dom' = Settle(dom, log, gups[Running]["enter"])
  /\ UNCHANGED <<gups, props, srcs, composed, call, ret, callables, d3transition>>

Next ==
  \/ Configure
  \/ CallData
  \/ _gup_start
  \/ _gup_select
  \/ _gup_join
  \/ _gup_pre
  \/ _gup_exit
  \/ _gup_enter
  \/ _gup_post
  \/ _gup_return

Spec == Init /\ [][Next]_vars

(***************************************************************************)
(* A bound instance whose factory may hold a phase function that throws.   *)
(***************************************************************************)
\* s.P(f), with f a function that may throw
ConfigureThrowing ==
  \E g \in DOMAIN gups, name \in PhaseNames :
    \E v \in ArgVals \cup {Thrower} :
      LET r == Accessor(name, gups, g, <<v>>) IN
        /\ pc = "idle"
        /\ gups' = r.G
        /\ ret' = r.ret
        /\ call' = [op |-> name, g |-> g, args |-> <<v>>]
        /\ ClearFunctionCall
        /\ pc' = "idle"
        /\ frame' = NoFrame
        /\ UNCHANGED <<props, srcs, composed, callables, d3transition, dom>>

NextThrow ==
  \/ ConfigureThrowing
  \/ _gup_start
  \/ _gup_select
  \/ _gup_join
  \/ _gup_pre
  \/ _gup_exit
  \/ _gup_enter
  \/ _gup_post
  \/ _gup_return

SpecThrow == Init /\ [][NextThrow]_vars

(***************************************************************************)
(* A bound instance called again and again on one container whose elements *)
(* are tracked: the enter function appends an element for every entering   *)
(* datum, the exit function removes the exiting elements.                  *)
(***************************************************************************)
\* the phases configured here and what their setters are given
JoinPhases == {"pre", "exit", "enter"}
JoinSlotVals(name) ==
  CASE name = "enter" -> {Null, Appender}
    [] name = "exit" -> {Null, Remover}
    [] OTHER -> {Null, User(1)}

\* var s = gup(), i = s(data, ...more); the container has no elements
InitJoin ==
  /\ gups = [g \in {1} |-> FreshGup]
  /\ props = [g \in DOMAIN gups |-> FreshProps(g)]
  /\ srcs = NoComposites
  /\ composed = NoComposites
  /\ callables \in [{1} -> [g : {1}, data : BoundData, more : BoundMore]]
  /\ call = [op |-> "bind", g |-> 1, args |-> <<callables[1].data>> \o callables[1].more]
  /\ ret = RetInstance(1)
  /\ NoFunctionCalled
  /\ pc = "idle"
  /\ frame = NoFrame
  /\ d3transition \in BOOLEAN
  /\ dom = EmptyContainer

\* s.P(f), with f a function that appends or removes elements
ConfigureJoin ==
  \E g \in DOMAIN gups, name \in JoinPhases :
    \E v \in JoinSlotVals(name) :
      LET r == Accessor(name, gups, g, <<v>>) IN
        /\ pc = "idle"
        /\ gups' = r.G
        /\ ret' = r.ret
        /\ call' = [op |-> name, g |-> g, args |-> <<v>>]
        /\ ClearFunctionCall
        /\ pc' = "idle"
        /\ frame' = NoFrame
        /\ UNCHANGED <<props, srcs, composed, callables, d3transition, dom>>

NextJoin ==
  \/ ConfigureJoin
  \/ CallData
  \/ _gup_start
  \/ _gup_select
  \/ _gup_join
  \/ _gup_pre
  \/ _gup_exit
  \/ _gup_enter
  \/ _gup_post
  \/ _gup_return

SpecJoin == InitJoin /\ [][NextJoin]_vars

(***************************************************************************)
(* A bound instance whose factory is configured after the bind, also by    *)
(* the phase functions of a running call: a phase function that has run    *)
(* may have called a setter of the factory before it returned.             *)
(***************************************************************************)
\* the phases configured here and what their setters are given
LatePhases == {"pre", "enter", "post"}
LateSlotVals == {Null, User(1)}

\* s.P(f), while no instance call is running
ConfigureLate ==
  \E g \in DOMAIN gups, name \in LatePhases, v \in LateSlotVals :
    LET r == Accessor(name, gups, g, <<v>>) IN
      /\ pc = "idle"
      /\ gups' = r.G
      /\ ret' = r.ret
      /\ call' = [op |-> name, g |-> g, args |-> <<v>>]
      /\ ClearFunctionCall
      /\ pc' = "idle"
      /\ frame' = NoFrame
      /\ UNCHANGED <<props, srcs, composed, callables, d3transition, dom>>

\* a slip: a setter call made while a call is running is not seen by it
SetInPhase_NotSeen ==
  \E name \in LatePhases, v \in LateSlotVals :
    /\ pc \in {"pre", "exit", "enter", "post"}
    /\ log # <<>> /\ log[Len(log)].fn.k = "user"
    /\ gups[Running][name] # v
    /\ ret' = RetThis(Running)
    /\ call' = [op |-> name, g |-> Running, args |-> <<v>>]
    /\ UNCHANGED <<gups, props, srcs, composed, fcall, log, result, thrown, callables,
                   pc, frame, d3transition, dom>>

\* s.P(f), called by the phase function that has just run
SetInPhase ==
  \E name \in LatePhases, v \in LateSlotVals :
    LET r == Accessor(name, gups, Running, <<v>>) IN
      /\ pc \in {"pre", "exit", "enter", "post"}
      /\ log # <<>> /\ log[Len(log)].fn.k = "user"
      /\ gups[Running][name] # v
      /\ gups' = r.G
      /\ ret' = r.ret
      /\ call' = [op |-> name, g |-> Running, args |-> <<v>>]
      /\ UNCHANGED <<props, srcs, composed, fcall, log, result, thrown, callables,
                     pc, frame, d3transition, dom>>

NextLate ==
  \/ ConfigureLate
  \/ SetInPhase
  \/ _gup_start
  \/ _gup_select
  \/ _gup_join
  \/ _gup_pre
  \/ _gup_exit
  \/ _gup_enter
  \/ _gup_post
  \/ _gup_return

SpecLate == Init /\ [][NextLate]_vars

(***************************************************************************)
(* Two instances bound from one factory: var s = gup(), i = s(data,        *)
(* ...more), j = s(data, ...more).                                         *)
(***************************************************************************)
Instances == {1, 2}

InitTwo ==
  /\ gups = [g \in {1} |-> FreshGup]
  /\ props = [g \in DOMAIN gups |-> FreshProps(g)]
  /\ srcs = NoComposites
  /\ composed = NoComposites
  /\ callables \in [Instances -> [g : {1}, data : BoundData, more : BoundMore]]
  /\ call = [op |-> "bind", g |-> 1, args |-> <<callables[2].data>> \o callables[2].more]
  /\ ret = RetInstance(2)
  /\ NoFunctionCalled
  /\ pc = "idle"
  /\ frame = NoFrame
  /\ d3transition \in BOOLEAN
  /\ dom = Untracked

NextTwo ==
  \/ ConfigureLate
  \/ CallData
  \/ _gup_start
  \/ _gup_select
  \/ _gup_join
  \/ _gup_pre
  \/ _gup_exit
  \/ _gup_enter
  \/ _gup_post
  \/ _gup_return

SpecTwo == InitTwo /\ [][NextTwo]_vars

(***************************************************************************)
(* A bound instance of a composite: c = compose(s_1, ..., s_n) of fresh    *)
(* factories, i = c(data), then the sources are configured and i is        *)
(* called.                                                                 *)
(***************************************************************************)
\* the phases of the sources configured here, and what their setters are
\* given
ForwardPhases == {"select", "enter"}
ForwardSlotVals == {Null, User(1)}

\* var c = compose(s_1, ..., s_n), i = c(data)
InitComposite ==
  \E sources \in SourceLists :
    LET r == compose([g \in Sources |-> FreshGup], NoComposites, sources) IN
      /\ gups = r.G
      /\ props = compose_extend([g \in Sources |-> FreshProps(g)], r.g, sources)
      /\ srcs = r.S
      /\ composed = [x \in {r.g} |-> sources]
      /\ callables = [c \in {1} |-> [g |-> r.g, data |-> "d1", more |-> <<>>]]
      /\ call = [op |-> "bind", g |-> r.g, args |-> <<"d1">>]
      /\ ret = RetInstance(1)
      /\ NoFunctionCalled
      /\ pc = "idle"
      /\ frame = NoFrame
      /\ d3transition \in BOOLEAN
      /\ dom = Untracked

\* s_i.select(f), s_i.enter(f) on a source, while no instance call is
\* running
ConfigureForward ==
  \E g \in Sources, name \in ForwardPhases, v \in ForwardSlotVals :
    LET r == Accessor(name, gups, g, <<v>>) IN
      /\ pc = "idle"
      /\ gups' = r.G
      /\ ret' = r.ret
      /\ call' = [op |-> name, g |-> g, args |-> <<v>>]
      /\ ClearFunctionCall
      /\ pc' = "idle"
      /\ frame' = NoFrame
      /\ UNCHANGED <<props, srcs, composed, callables, d3transition, dom>>

NextComposite ==
  \/ ConfigureForward
  \/ _gup_start
  \/ _gup_select
  \/ _gup_join
  \/ _gup_pre
  \/ _gup_exit
  \/ _gup_enter
  \/ _gup_post
  \/ _gup_return

SpecComposite == InitComposite /\ [][NextComposite]_vars

(***************************************************************************)
(* Nested composites: of three factories A, B and C the composites         *)
(* compose(A, B), compose(compose(A, B), C) and compose(A, B, C) are made; *)
(* then A, B and C are configured and the phase functions of the           *)
(* composites are called.                                                  *)
(***************************************************************************)
Operands == {1, 2, 3}
InnerOperands == <<1, 2>>
AllOperands == <<1, 2, 3>>
LastOperand == 3

\* var ab = compose(A, B), nested = compose(ab, C), flat = compose(A, B, C)
InitNested ==
  LET G0 == [g \in Operands |-> FreshGup]
      P0 == [g \in Operands |-> FreshProps(g)]
      ab == compose(G0, NoComposites, InnerOperands)
      P1 == compose_extend(P0, ab.g, InnerOperands)
      nested == compose(ab.G, ab.S, <<ab.g, LastOperand>>)
      P2 == compose_extend(P1, nested.g, <<ab.g, LastOperand>>)
      flat == compose(nested.G, nested.S, AllOperands)
  IN /\ gups = flat.G
     /\ props = compose_extend(P2, flat.g, AllOperands)
     /\ srcs = flat.S
     /\ composed = [x \in {ab.g, nested.g, flat.g} |->
                      CASE x = ab.g -> InnerOperands
                        [] x = nested.g -> <<ab.g, LastOperand>>
                        [] OTHER -> AllOperands]
     /\ call = [op |-> "compose", g |-> flat.g, args |-> <<>>]
     /\ ret = RetThis(flat.g)
     /\ NoFunctionCalled
     /\ NoInstance

\* A.P(f), B.P(f), C.P(f)
ConfigureOperand ==
  \E g \in Operands, name \in PhaseNames, v \in ArgVals :
    LET r == Accessor(name, gups, g, <<v>>) IN
      /\ \A h \in Operands, p \in PhaseNames : gups[h][p] # Null => p = name
      /\ gups' = r.G
      /\ ret' = r.ret
      /\ call' = [op |-> name, g |-> g, args |-> <<v>>]
      /\ ClearFunctionCall
      /\ UNCHANGED <<props, srcs, composed, instanceVars>>

NextNested == ConfigureOperand \/ CallPhaseFunction

SpecNested == InitNested /\ [][NextNested]_vars

(***************************************************************************)
(* Properties of the accessors, checked under SpecAccessors.               *)
(***************************************************************************)
IsSetterCall(c) == c.op \in PhaseNames /\ Len(c.args) = 1
UpdatePhases == <<"pre", "exit", "enter", "post">>

\* C5: setter/getter round trip.  After s.P(f) with f a function, whatever
\* was called before and whatever the other phases hold, s.P() returns f
\* itself.
C5_RoundTrip ==
  (IsSetterCall(call) /\ call.args[1].k # "null")
    => Getter(call.op, gups, call.g) = call.args[1]

C5_Witness ==
  /\ IsSetterCall(call) /\ call.op = "exit" /\ call.args[1] = User(1)
  /\ gups[call.g]["pre"] = User(1)
  /\ gups[call.g]["enter"] = Null

\* C6: reset by null.  After s.P(null), s.P() returns the canonical default
\* of the phase: identity for select and enter, empty for pre, exit, post.
C6_ResetByNull ==
  (IsSetterCall(call) /\ call.args[1] = Null)
    => Getter(call.op, gups, call.g) =
         (IF call.op \in {"select", "enter"} THEN identity ELSE empty)

C6_Witness ==
  /\ IsSetterCall(call) /\ call.op = "enter" /\ call.args[1] = Null
  /\ gups[call.g]["pre"] = User(1)
  /\ gups[call.g]["select"] = User(1)

\* C7: in every state reached by setter and update calls with functions or
\* null as arguments, each of the five getters and each entry of update()
\* is a callable, never null.
C7_GettersCallable ==
  \A g \in DOMAIN gups :
    /\ \A name \in PhaseNames : IsCallable(Getter(name, gups, g))
    /\ LET t == gup_update(gups, g, <<>>).ret.tup IN
         Len(t) = 4 /\ \A i \in 1..4 : IsCallable(t[i])

C7_Witness ==
  /\ call.op = "update" /\ Len(call.args) = 4
  /\ gups[call.g]["pre"] = Null /\ gups[call.g]["exit"] = User(1)
  /\ gups[call.g]["enter"] = Null /\ gups[call.g]["post"] = User(1)
  /\ gups[call.g]["select"] = Null

\* C8: update() with no argument returns [s.pre(), s.exit(), s.enter(),
\* s.post()] in that order, unset phases replaced by empty, empty, identity,
\* empty, select not included, and leaves the configuration unchanged.
C8_UpdateGetter ==
  [][(call'.op = "update" /\ call'.args = <<>>) =>
       /\ gups' = gups
       /\ ret'.t = "tuple"
       /\ ret'.tup = <<Getter("pre", gups, call'.g), Getter("exit", gups, call'.g),
                       Getter("enter", gups, call'.g), Getter("post", gups, call'.g)>>
       /\ \A i \in 1..4 :
            ret'.tup[i] =
              IF gups[call'.g][UpdatePhases[i]] # Null
                THEN gups[call'.g][UpdatePhases[i]]
                ELSE <<empty, empty, identity, empty>>[i]]_vars

C8_Witness ==
  /\ call.op = "update" /\ call.args = <<>>
  /\ gups[call.g]["pre"] = User(1) /\ gups[call.g]["exit"] = Null
  /\ gups[call.g]["enter"] = Null /\ gups[call.g]["post"] = User(1)
  /\ gups[call.g]["select"] = User(1)
  /\ ret.tup = <<User(1), empty, identity, User(1)>>

\* C9: update with k arguments, 1 <= k <= 4, assigns the first k of pre,
\* exit, enter, post from its arguments in that order and leaves the other
\* 4-k of them and select as they were.
C9_UpdatePositional ==
  [][(call'.op = "update" /\ Len(call'.args) \in 1..4) =>
       /\ \A i \in 1..4 :
            gups'[call'.g][UpdatePhases[i]] =
              IF i <= Len(call'.args)
                THEN call'.args[i]
                ELSE gups[call'.g][UpdatePhases[i]]
       /\ gups'[call'.g]["select"] = gups[call'.g]["select"]]_vars

C9_Witness ==
  /\ call.op = "update" /\ call.args = <<Null, User(1)>>
  /\ gups[call.g]["pre"] = Null /\ gups[call.g]["exit"] = User(1)
  /\ gups[call.g]["enter"] = User(1) /\ gups[call.g]["post"] = User(1)
  /\ gups[call.g]["select"] = User(1)

\* C10: update with more than four arguments raises no error: pre, exit,
\* enter and post are assigned from the first four arguments, the other
\* arguments are ignored, select is unchanged and the factory is returned.
C10_UpdateExtraArgs ==
  [][(call'.op = "update" /\ Len(call'.args) > 4) =>
       /\ \A i \in 1..4 : gups'[call'.g][UpdatePhases[i]] = call'.args[i]
       /\ gups'[call'.g]["select"] = gups[call'.g]["select"]
       /\ gups' = gup_update(gups, call'.g, SubSeq(call'.args, 1, 4)).G
       /\ ret' = RetThis(call'.g)]_vars

C10_Witness ==
  /\ call.op = "update" /\ call.args = <<User(1), Null, User(1), Null, User(1)>>
  /\ gups[call.g]["select"] = User(1)
  /\ gups[call.g]["post"] = Null
  /\ ret = RetThis(call.g)

\* C11: every phase setter (select, pre, exit, enter, post with one
\* argument) and update with one or more arguments, called as a method of
\* the factory s, returns s itself, and the assignment it stands for has
\* been applied to s: a chain of such calls stays on s.
C11_SettersReturnThis ==
  /\ IsSetterCall(call) =>
       /\ ret = RetThis(call.g)
       /\ gups[call.g][call.op] = call.args[1]
  /\ (call.op = "update" /\ Len(call.args) >= 1) =>
       /\ ret = RetThis(call.g)
       /\ \A i \in 1..4 :
            i <= Len(call.args) => gups[call.g][UpdatePhases[i]] = call.args[i]

C11_Witness ==
  /\ IsSetterCall(call) /\ call.op = "select" /\ call.args[1] = User(1)
  /\ ret = RetThis(call.g)
  /\ gups[call.g]["select"] = User(1)
  /\ gups[call.g]["pre"] = User(1)
  /\ gups[call.g]["post"] = User(1)

(***************************************************************************)
(* Properties of composition, checked under SpecCompose.                   *)
(***************************************************************************)
\* the last function call was a call of composite c's own dispatcher
DispatcherCalled ==
  /\ fcall.g \in Composites
  /\ fcall.fn = Dispatcher(fcall.g, fcall.ph)

IsDefault(f) == f = empty \/ f = identity

\* no source of the called composite holds a throwing function in the
\* called phase
NoSourceThrows ==
  \A i \in 1..Len(composed[fcall.g]) : gups[composed[fcall.g][i]][fcall.ph] # Thrower

\* the sources s_n, ..., s_1 of the called composite whose getter for the
\* called phase returns a non-default function
ExpectedSources ==
  SelectSeq(Reverse(composed[fcall.g]),
            LAMBDA s : ~IsDefault(Getter(fcall.ph, gups, s)))

\* the calls the dispatcher made itself
DispatcherCalls == SelectSeq(log, LAMBDA e : e.depth = 1)

\* the dispatcher called the non-default phase functions of its sources,
\* rightmost source first, and nothing else
CalledRightmostFirst ==
  /\ Len(DispatcherCalls) = Len(ExpectedSources)
  /\ \A i \in 1..Len(ExpectedSources) :
       /\ DispatcherCalls[i].src = ExpectedSources[i]
       /\ DispatcherCalls[i].fn = gups[ExpectedSources[i]][fcall.ph]

\* C2: for pre, exit and post the composite's phase function invokes the
\* non-default phase functions of the sources in the order s_n, ..., s_1,
\* every one with the original argument list, and discards what they return.
C2_ComposeRightToLeft ==
  (DispatcherCalled /\ fcall.ph \in {"pre", "exit", "post"} /\ NoSourceThrows) =>
    /\ CalledRightmostFirst
    /\ \A i \in 1..Len(DispatcherCalls) : DispatcherCalls[i].args = fcall.args
    /\ result = Undefined
    /\ ~thrown

C2_Witness ==
  /\ DispatcherCalled /\ fcall.ph = "pre"
  /\ composed[fcall.g] = <<1, 2>>
  /\ fcall.args = <<X, PassThrough>>
  /\ Len(DispatcherCalls) = 2
  /\ DispatcherCalls[1].src = 2 /\ DispatcherCalls[2].src = 1

\* C3: for select and enter the composite's phase function calls the
\* sources' non-default functions rightmost first; each called function
\* receives the value returned by the previous one as its first argument
\* and the other arguments unchanged; the composite's function returns what
\* the last called function returned.
C3_ComposeForward ==
  (DispatcherCalled /\ fcall.ph \in {"select", "enter"} /\ NoSourceThrows) =>
    /\ CalledRightmostFirst
    /\ \A i \in 1..Len(DispatcherCalls) :
         /\ Len(DispatcherCalls[i].args) = Len(fcall.args)
         /\ DispatcherCalls[i].args[1] =
              (IF i = 1 THEN fcall.args[1] ELSE DispatcherCalls[i - 1].ret)
         /\ Tail(DispatcherCalls[i].args) = Tail(fcall.args)
    /\ Len(DispatcherCalls) > 0 =>
         result = DispatcherCalls[Len(DispatcherCalls)].ret
    /\ ~thrown

C3_Witness ==
  /\ DispatcherCalled /\ fcall.ph = "enter"
  /\ composed[fcall.g] = <<1, 2>>
  /\ fcall.args = <<X, PassThrough>>
  /\ Len(DispatcherCalls) = 2
  /\ DispatcherCalls[2].args = <<UserRet(User(1), <<X>>), PassThrough>>
  /\ result = <<"x", "u1", "u1">>

\* C4: for compose(A, B) where only B configures enter, A's default enter is
\* not invoked and the composite's enter returns what B.enter() returns when
\* called directly with the same input.
C4_OnlyRightConfigured ==
  \A A, B \in Sources :
    ( /\ DispatcherCalled /\ fcall.ph = "enter"
      /\ composed[fcall.g] = <<A, B>>
      /\ gups[A]["enter"] = Null
      /\ ~IsDefault(Getter("enter", gups, B))
      /\ NoSourceThrows ) =>
      /\ \A i \in 1..Len(log) : log[i].src # A /\ log[i].fn # identity
      /\ result = Apply(gups, srcs, B, Getter("enter", gups, B), fcall.args, 1).ret
      /\ result = Append(fcall.args[1], UserTags[gups[B]["enter"].n])

C4_Witness ==
  /\ DispatcherCalled /\ fcall.ph = "enter"
  /\ composed[fcall.g] = <<1, 2>>
  /\ gups[1]["enter"] = Null
  /\ gups[2]["enter"] = User(1)
  /\ result = <<"x", "u1">>

\* the position, among the sources the dispatcher is expected to call, of
\* the first one whose function throws
FirstThrowing ==
  CHOOSE k \in 1..Len(ExpectedSources) :
    /\ gups[ExpectedSources[k]][fcall.ph] = Thrower
    /\ \A j \in 1..(k - 1) : gups[ExpectedSources[j]][fcall.ph] # Thrower

\* C23: if a source's phase function throws while a composite's phase
\* function is running, the exception propagates out of the composite's
\* phase function, the sources that come later in execution order (those to
\* the left in the compose call) are not called for that phase, and the
\* sources already called are not called again.
C23_ComposeThrow ==
  (DispatcherCalled /\ ~NoSourceThrows) =>
    /\ thrown /\ result = Exception
    /\ Len(DispatcherCalls) = FirstThrowing
    /\ \A i \in 1..FirstThrowing :
         /\ DispatcherCalls[i].src = ExpectedSources[i]
         /\ DispatcherCalls[i].fn = gups[ExpectedSources[i]][fcall.ph]
    /\ \A i, j \in 1..Len(log) : log[i].src = log[j].src => i = j \/ log[i].src = 0

\* compose(s1, s2) with s2.enter throwing: s1.enter is not called
C23_Witness ==
  /\ DispatcherCalled /\ fcall.ph = "enter"
  /\ composed[fcall.g] = <<1, 2>>
  /\ gups[2]["enter"] = Thrower /\ gups[1]["enter"] = User(1)
  /\ thrown /\ result = Exception
  /\ Len(DispatcherCalls) = 1 /\ DispatcherCalls[1].src = 2

\* what the phase function of composite c does when it is called with args
\* in the current state
PhaseFunctionRun(c, name, args) == Apply(gups, srcs, 0, Dispatcher(c, name), args, 0)

\* the calls it makes itself of the function of source s
RunCallsOf(c, name, args, s) ==
  SelectSeq(PhaseFunctionRun(c, name, args).log, LAMBDA e : e.depth = 1 /\ e.src = s)

\* a source called before the i-th source of c holds a throwing function
ThrowsBefore(c, name, i) ==
  \E j \in (i + 1)..Len(composed[c]) : gups[composed[c][j]][name] = Thrower

\* the phase functions of every composite call the functions their sources'
\* slots hold now, and skip the sources whose slot holds null now
ReadsCurrentSlots ==
  \A c \in Composites, name \in PhaseNames, args \in CallArgs :
    \A i \in 1..Len(composed[c]) :
      LET s == composed[c][i]
          calls == RunCallsOf(c, name, args, s)
      IN /\ gups[s][name] = Null => calls = <<>>
         /\ (gups[s][name] # Null /\ ~ThrowsBefore(c, name, i)) =>
              (Len(calls) = 1 /\ calls[1].fn = gups[s][name])

\* a setter call on a source, made after compose
SetAfterCompose == Composites # {} /\ call'.op \in PhaseNames /\ call'.g \in Sources

\* C31: a composite reads each source's phase function through the
\* source's getter when the composite's phase function runs.  A setter call
\* on a source made after compose(...) stores its argument in the source
\* and leaves the composite as it was; in every state the composite's phase
\* function calls what the sources' slots hold then, so it calls the new
\* function from then on and skips a source reset to null from then on;
\* and the calls observed are those of the state the call was made in.
C31_ReadsSourcesAtCall ==
  /\ []ReadsCurrentSlots
  /\ [](DispatcherCalled =>
          log = PhaseFunctionRun(fcall.g, fcall.ph, fcall.args).log)
  /\ [][SetAfterCompose =>
          /\ gups'[call'.g][call'.op] = call'.args[1]
          /\ srcs' = srcs /\ composed' = composed
          /\ \A c \in Composites : gups'[c] = gups[c]]_vars

\* s2.pre(f) has just been called after c = compose(s1, s2), with s1.pre
\* reset to null: c.pre() calls f and nothing else
C31_Witness ==
  /\ Composites # {} /\ call = [op |-> "pre", g |-> 2, args |-> <<User(1)>>]
  /\ \E c \in Composites :
       /\ composed[c] = <<1, 2>>
       /\ gups[1]["pre"] = Null
       /\ LET l == PhaseFunctionRun(c, "pre", <<X>>).log IN
            /\ Len(l) = 2
            /\ l[2].src = 2 /\ l[2].fn = User(1) /\ l[2].args = <<X>>

(***************************************************************************)
(* Properties of the property extend, checked under SpecExtend.            *)
(***************************************************************************)
\* C24: compose never mutates its inputs.  After compose(s_1..s_n), and
\* after any later sequence of setter calls on the returned composite,
\* every source's five phase getters return the same functions as before
\* the compose call and every source's other properties are unchanged; the
\* composite is a new object distinct from every source.
C24_SourcesNotMutated ==
  /\ [](Composites \cap Sources = {})
  /\ [][(call'.op = "compose" \/ call'.g \in DOMAIN srcs') =>
          /\ \A s \in Sources :
               /\ \A name \in PhaseNames :
                    Getter(name, gups', s) = Getter(name, gups, s)
               /\ props'[s] = props[s]
          /\ call'.op = "compose" => call'.g \notin DOMAIN gups]_vars

\* a setter was called on the composite of two sources, the first of which
\* is configured and carries a property
C24_Witness ==
  /\ call.op = "pre" /\ call.g \in Composites /\ call.args = <<User(1)>>
  /\ composed[call.g] = <<1, 2>>
  /\ gups[1] = ConfiguredGup /\ gups[2] = FreshGup
  /\ "foo" \in DOMAIN props[1]
  /\ gups[call.g]["pre"] = User(1)

\* the sources of composite c that define property p, by their position in
\* the compose call
Defining(c, p) == {i \in 1..Len(composed[c]) : p \in DOMAIN props[composed[c][i]]}

Rightmost(I) == CHOOSE i \in I : \A j \in I : j <= i

\* C25: property extend.  For every custom (non-reserved) property name p
\* defined on at least one source of compose(s_1..s_n), the composite's p
\* equals the value of p on the rightmost source that defines p.
C25_RightmostWins ==
  \A c \in Composites : \A p \in CustomNames \ nonEnumerableProps :
    Defining(c, p) # {} =>
      /\ p \in DOMAIN props[c]
      /\ props[c][p] = props[composed[c][Rightmost(Defining(c, p))]][p]

\* compose(s1, s2), both sources define foo
C25_Witness ==
  \E c \in Composites :
    /\ composed[c] = <<1, 2>>
    /\ "foo" \in DOMAIN props[1] /\ "foo" \in DOMAIN props[2]
    /\ props[c]["foo"] = ValueOf(2)

\* the composite's six accessors are its own
OwnAccessors(c) ==
  \A name \in FactoryMethods : props[c][name] = AccessorOf(c, name)

\* C26 as stated: property extend never copies a reserved name: whatever
\* the sources carry, the composite's select, pre, exit, enter, post and
\* update are its own accessors, and a property named data on a source is
\* not copied onto the composite.
C26_ReservedNeverCopied ==
  \A c \in Composites :
    /\ OwnAccessors(c)
    /\ "data" \notin DOMAIN props[c]

\* C26 amended: the composite's select, pre, exit, enter, post and update
\* are its own accessors, never a source's; a property named data on a
\* source is copied onto the composite like any custom property (the
\* rightmost source that defines it wins).
C26_AccessorsNeverCopied ==
  \A c \in Composites :
    /\ OwnAccessors(c)
    /\ "data" \in DOMAIN props[c] <=> Defining(c, "data") # {}
    /\ Defining(c, "data") # {} =>
         props[c]["data"] = props[composed[c][Rightmost(Defining(c, "data"))]]["data"]

\* compose(s2, s1), both sources configured, s2 carries data
C26_Witness ==
  \E c \in Composites :
    /\ composed[c] = <<2, 1>>
    /\ gups[1] = ConfiguredGup /\ gups[2] = ConfiguredGup
    /\ "data" \in DOMAIN props[2] /\ "data" \notin DOMAIN props[1]
    /\ props[c]["data"] = ValueOf(2)
    /\ props[c]["update"] = AccessorOf(c, "update")

(***************************************************************************)
(* Properties of a bound instance, checked under Spec.                     *)
(***************************************************************************)
IsUserFunction(f) == f.k \in {"user", "tuser"}

\* every phase of the running instance's factory holds a user function
AllPhasesConfigured ==
  \A name \in PhaseNames : IsUserFunction(gups[Running][name])

\* the calls C1 speaks of: the phase functions, the data join and the merge
ObservableCalls ==
  SelectSeq(log, LAMBDA e : \/ IsUserFunction(e.fn)
                            \/ e.fn = External("data")
                            \/ e.fn = External("merge"))

\* the protocol order of the running instance's factory
ProtocolOrder ==
  <<gups[Running]["select"], External("data"), gups[Running]["pre"],
    gups[Running]["exit"], gups[Running]["enter"], External("merge"),
    gups[Running]["post"]>>

\* how many of the observable calls have been made when the call stands at pc
CallsMadeAt(p) ==
  CASE p = "select" -> 0
    [] p = "join" -> 1
    [] p = "pre" -> 2
    [] p = "exit" -> 3
    [] p = "enter" -> 4
    [] p = "post" -> 5
    [] p = "done" -> 7

PendingBind(c) == _gup_data(callables, c, <<>>).ret

\* the last call bound the instance or set its pending bind
IsBindCall(c) == c.op = "bind" \/ (c.op = "data" /\ Len(c.args) >= 1)

\* C12: pending-bind round trip.  An instance bound with (d, k, x_1..x_m)
\* returns [d, k, x_1..x_m] from data(); after data(d2, k2, ...) on it,
\* data() returns [d2, k2, ...] and nothing of the previous bind remains;
\* no other call changes the pending bind, and data() returns it.
C12_DataRoundTrip ==
  [][/\ IsBindCall(call') =>
          _gup_data(callables', call'.g, <<>>).ret = RetArray(call'.args)
     /\ ~IsBindCall(call') => callables' = callables
     /\ (call'.op = "data" /\ call'.args = <<>>) =>
          ret' = RetArray(<<callables[call'.g].data>> \o callables[call'.g].more)]_vars

\* data(d2) was called on an instance that held [d1, k1, m1]
C12_Witness ==
  /\ call.op = "data" /\ call.args = <<"d2">>
  /\ PendingBind(call.g) = RetArray(<<"d2">>)
  /\ gups[callables[call.g].g]["pre"] = User(1)

\* C13 as stated: data called with one or more arguments returns the
\* factory, the object that carries the five phase accessors, so that a
\* phase setter can be chained after it.
C13_DataReturnsFactory ==
  (call.op = "data" /\ Len(call.args) >= 1) =>
    /\ ret = RetThis(callables[call.g].g)
    /\ PhaseNames \subseteq MethodsOf(ret)

\* C13 amended: data called with one or more arguments on a bound instance
\* returns that instance, which carries data and none of the phase
\* accessors.
C13_DataReturnsInstance ==
  (call.op = "data" /\ Len(call.args) >= 1) =>
    /\ ret = RetInstance(call.g)
    /\ "data" \in MethodsOf(ret)
    /\ MethodsOf(ret) \cap PhaseNames = {}

C13_Witness ==
  /\ call.op = "data" /\ call.args = <<"d2", "k2">>
  /\ ret = RetInstance(call.g)
  /\ callables[call.g].data = "d2"

\* the running call has passed the data join
PastJoin == pc \in {"pre", "exit", "enter", "post", "done"} /\ ~thrown

\* the calls of the join made by the running call
JoinCalls == SelectSeq(log, LAMBDA e : e.fn = External("data"))

\* what the instance was called on, and the pass-through arguments
CalledOn == fcall.args[1]
PassedArgs == Tail(fcall.args)

\* the selection context resolution yields for the first argument
Resolved == IF HasSelection(CalledOn) THEN selection_of(CalledOn) ELSE CalledOn

\* what the configured select function returns in the running call
SelectReturn == UserRet(gups[Running]["select"], <<Resolved>> \o PassedArgs)

\* the selection that results from context resolution and the select phase
Selected ==
  IF IsUserFunction(gups[Running]["select"])
    THEN IF HasSelection(SelectReturn) THEN selection_of(SelectReturn) ELSE SelectReturn
    ELSE Resolved

\* C14: each invocation performs the data join exactly once, on the
\* selection that results from context resolution and the select phase,
\* with the data array currently bound to the instance and the first extra
\* bound argument as key function; the bound arguments after the key are
\* not passed to the join.
C14_JoinOnce ==
  /\ pc \in {"select", "join"} => Len(JoinCalls) = 0
  /\ PastJoin =>
       LET data == callables[frame.c].data
           more == callables[frame.c].more
           key == IF more = <<>> THEN "undefined" ELSE Head(more)
       IN /\ Len(JoinCalls) = 1
          /\ JoinCalls[1].args = <<Selected, <<data>>, <<key>>>>
          /\ JoinCalls[1].ret = data_join(Selected, data, key)

\* a finished call of an instance rebound by data("d2", "k1", "m1"), on a
\* transition, with a select function that returns a transition
C14_Witness ==
  /\ pc = "done" /\ ~thrown
  /\ callables[frame.c].data = "d2"
  /\ callables[frame.c].more = <<"k1", "m1">>
  /\ CalledOn = Trans
  /\ gups[Running]["select"] = TUser(1)
  /\ Len(JoinCalls) = 1
  /\ JoinCalls[1].args = <<<<"trans", "selection", "t1", "selection">>, <<"d2">>, <<"k1">>>>

\* the calls of user functions made by the running call
UserCalls == SelectSeq(log, LAMBDA e : IsUserFunction(e.fn))

\* the running call has passed the select phase
PastSelect == pc \in {"join", "pre", "exit", "enter", "post", "done"} /\ ~thrown

\* C15: context resolution.  The first argument of an invocation is treated
\* as a transition context if and only if it exposes selection; in that
\* case the select phase and the join operate on the value of its
\* selection(), never on the argument itself; otherwise they operate on the
\* argument itself and no transition context is active.
C15_ContextResolution ==
  /\ pc = "select" =>
       /\ frame.shouldTransition = HasSelection(CalledOn)
       /\ frame.context = CalledOn
       /\ frame.selection =
            (IF HasSelection(CalledOn) THEN selection_of(CalledOn) ELSE CalledOn)
       /\ log = IF HasSelection(CalledOn)
                  THEN <<ExtEntry("selection", <<CalledOn>>, selection_of(CalledOn))>>
                  ELSE <<>>
  /\ (PastSelect /\ IsUserFunction(gups[Running]["select"])) =>
       /\ UserCalls[1].fn = gups[Running]["select"]
       /\ UserCalls[1].args[1] =
            (IF HasSelection(CalledOn) THEN selection_of(CalledOn) ELSE CalledOn)
  /\ (PastJoin /\ ~IsUserFunction(gups[Running]["select"])) =>
       JoinCalls[1].args[1] =
         (IF HasSelection(CalledOn) THEN selection_of(CalledOn) ELSE CalledOn)

\* the instance was called on a transition, the select function has run
C15_Witness ==
  /\ pc = "join" /\ ~thrown
  /\ CalledOn = Trans
  /\ gups[Running]["select"] = User(1)
  /\ frame.shouldTransition
  /\ UserCalls[1].args = <<<<"trans", "selection">>, PassThrough>>

\* the last call made by the running call
LastCall == log[Len(log)]

\* view.transition(context) when a transition context is active and the
\* view exposes transition, the plain view otherwise
Forwarded(view) ==
  IF frame.shouldTransition /\ HasTransitionMethod(view)
    THEN transition(view, frame.context)
    ELSE view

\* C16: each of the pre, exit and post functions is invoked on
\* view.transition(context), with context the transition context active at
\* that point, exactly when a transition context is active and the view
\* (persisting, exiting, merged respectively) exposes transition; in every
\* other case it is invoked on the plain view.
C16_ForwardTransition ==
  /\ (pc = "exit" /\ ~thrown /\ IsUserFunction(gups[Running]["pre"])) =>
       /\ LastCall.fn = gups[Running]["pre"]
       /\ LastCall.args = <<Forwarded(frame.selection)>> \o PassedArgs
  /\ (pc = "enter" /\ ~thrown /\ IsUserFunction(gups[Running]["exit"])) =>
       /\ LastCall.fn = gups[Running]["exit"]
       /\ LastCall.args = <<Forwarded(exit_of(frame.selection))>> \o PassedArgs
  /\ (pc = "done" /\ ~thrown /\ IsUserFunction(gups[Running]["post"])) =>
       /\ LastCall.fn = gups[Running]["post"]
       /\ LastCall.args =
            <<Forwarded(merge(frame.d_enter, frame.selection))>> \o PassedArgs

\* the exit function was called on the transition of the exiting view
C16_Witness ==
  /\ pc = "enter" /\ ~thrown
  /\ CalledOn = Trans /\ d3transition
  /\ gups[Running]["exit"] = User(1)
  /\ gups[Running]["select"] = Null
  /\ LastCall.args[1] =
       <<"trans", "selection", "d1", "undefined", "data", "exit", "trans", "transition">>

\* the last call of a user function made by the running call
LastUserCall == UserCalls[Len(UserCalls)]

\* C17: the enter function is always invoked on the plain entering view
\* returned by the join's enter(); no transition is applied to that view
\* before the enter function is called, whether or not a transition context
\* is active.
C17_EnterOnPlainView ==
  (pc = "post" /\ ~thrown /\ IsUserFunction(gups[Running]["enter"])) =>
    /\ LastUserCall.fn = gups[Running]["enter"]
    /\ LastUserCall.args = <<enter_of(frame.selection)>> \o PassedArgs
    /\ \E i \in 1..Len(log) :
         /\ log[i] = ExtEntry("enter", <<frame.selection>>, LastUserCall.args[1])
         /\ \A j \in (i + 1)..Len(log) : log[j].fn # External("transition")

\* the enter function has run in a call on a transition
C17_Witness ==
  /\ pc = "post" /\ ~thrown
  /\ CalledOn = Trans /\ d3transition /\ frame.shouldTransition
  /\ gups[Running]["enter"] = User(1)
  /\ gups[Running]["exit"] = User(1)
  /\ LastUserCall.args[1] =
       <<"trans", "selection", "d1", "undefined", "data", "enter">>

\* the configured select function returns a transition-capable value
SelectPromotes ==
  IsUserFunction(gups[Running]["select"]) /\ HasSelection(SelectReturn)

\* the joined selection of the running call
Joined == JoinCalls[1].ret

\* what the configured enter function returns in the running call
EnterReturn == UserRet(gups[Running]["enter"], <<enter_of(Joined)>> \o PassedArgs)

\* the configured enter function returns a transition-capable value
EnterPromotes ==
  IsUserFunction(gups[Running]["enter"]) /\ HasSelection(EnterReturn)

\* view wrapped with T, for a view that exposes transition
WrappedWith(view, T) ==
  IF HasTransitionMethod(view) THEN transition(view, T) ELSE view

\* the part of C18 that concerns the context, the join, and the pre and exit
\* views
SelectPromotesUpToExit ==
  /\ (pc = "join" /\ ~thrown /\ SelectPromotes) =>
       /\ frame.shouldTransition
       /\ frame.context = SelectReturn
       /\ frame.selection = selection_of(SelectReturn)
  /\ (PastJoin /\ SelectPromotes) =>
       JoinCalls[1].args[1] = selection_of(SelectReturn)
  /\ (pc = "exit" /\ ~thrown /\ SelectPromotes
        /\ IsUserFunction(gups[Running]["pre"])) =>
       LastCall.args[1] = WrappedWith(Joined, SelectReturn)
  /\ (pc = "enter" /\ ~thrown /\ SelectPromotes
        /\ IsUserFunction(gups[Running]["exit"])) =>
       LastCall.args[1] = WrappedWith(exit_of(Joined), SelectReturn)

\* C18 as stated: if the configured select function returns a
\* transition-capable value T, then T becomes the active transition context
\* (replacing a context given at the call site), the join is performed on
\* T.selection(), and the pre, exit and post views of that invocation are
\* wrapped with T (where the view exposes transition).
C18_SelectPromotesAllViews ==
  /\ SelectPromotesUpToExit
  /\ (pc = "done" /\ ~thrown /\ SelectPromotes
        /\ IsUserFunction(gups[Running]["post"])) =>
       LastCall.args[1] =
         WrappedWith(merge(frame.d_enter, Joined), SelectReturn)

\* C18 amended: if the configured select function returns a
\* transition-capable value T, then T becomes the active transition context
\* (replacing a context given at the call site), the join is performed on
\* T.selection(), and the pre and exit views are wrapped with T; the post
\* view is wrapped with T unless the enter function returns a
\* transition-capable value too, and then it is wrapped with that value;
\* a view is wrapped only where it exposes transition.
C18_SelectPromotes ==
  /\ SelectPromotesUpToExit
  /\ (pc = "done" /\ ~thrown /\ SelectPromotes
        /\ IsUserFunction(gups[Running]["post"])) =>
       LastCall.args[1] =
         WrappedWith(merge(frame.d_enter, Joined),
                     IF EnterPromotes THEN EnterReturn ELSE SelectReturn)

\* a finished call on a transition in which select and enter both returned
\* a transition
C18_Witness ==
  /\ pc = "done" /\ ~thrown
  /\ CalledOn = Trans /\ d3transition
  /\ SelectPromotes /\ EnterPromotes
  /\ gups[Running]["pre"] = User(1)
  /\ gups[Running]["post"] = User(1)
  /\ frame.context = EnterReturn
  /\ LastCall.args[1] = transition(merge(selection_of(EnterReturn), Joined), EnterReturn)

\* the running call has passed the enter phase
PastEnter == pc \in {"post", "done"} /\ ~thrown

\* a transition context was active before the enter phase, and which
ActiveBeforeEnter == SelectPromotes \/ HasSelection(CalledOn)
ContextBeforeEnter == IF SelectPromotes THEN SelectReturn ELSE CalledOn

\* the view as the pre and exit phases forward it
ForwardedBeforeEnter(view) ==
  IF ActiveBeforeEnter THEN WrappedWith(view, ContextBeforeEnter) ELSE view

\* where the calls of the pre and exit functions stand among the calls of
\* user functions
PreCallIndex == IF IsUserFunction(gups[Running]["select"]) THEN 2 ELSE 1
ExitCallIndex ==
  IF IsUserFunction(gups[Running]["pre"]) THEN PreCallIndex + 1 ELSE PreCallIndex

\* the calls of merge made by the running call
MergeCalls == SelectSeq(log, LAMBDA e : e.fn = External("merge"))

\* C19: if the configured enter function returns a transition-capable value
\* T, then the merge is performed on T.selection() and the merged view is
\* wrapped with T as the active context (where the merged view exposes
\* transition); the pre and exit phases of the same invocation, which ran
\* earlier, used the context that was active before the enter phase, or
\* none.
C19_EnterPromotes ==
  /\ (PastEnter /\ EnterPromotes) =>
       /\ frame.shouldTransition
       /\ frame.context = EnterReturn
       /\ frame.d_enter = selection_of(EnterReturn)
       /\ IsUserFunction(gups[Running]["pre"]) =>
            /\ UserCalls[PreCallIndex].fn = gups[Running]["pre"]
            /\ UserCalls[PreCallIndex].args[1] = ForwardedBeforeEnter(Joined)
       /\ IsUserFunction(gups[Running]["exit"]) =>
            /\ UserCalls[ExitCallIndex].fn = gups[Running]["exit"]
            /\ UserCalls[ExitCallIndex].args[1] = ForwardedBeforeEnter(exit_of(Joined))
  /\ (pc = "done" /\ ~thrown /\ EnterPromotes) =>
       /\ Len(MergeCalls) = 1
       /\ MergeCalls[1].args = <<selection_of(EnterReturn), Joined>>
       /\ result = WrappedWith(MergeCalls[1].ret, EnterReturn)
       /\ IsUserFunction(gups[Running]["post"]) =>
            LastCall.args[1] = WrappedWith(MergeCalls[1].ret, EnterReturn)

\* a finished call on a plain selection in which only enter returned a
\* transition: pre and exit saw plain views, post the wrapped merged view
C19_Witness ==
  /\ pc = "done" /\ ~thrown
  /\ CalledOn = Sel /\ d3transition
  /\ ~SelectPromotes /\ EnterPromotes
  /\ gups[Running]["pre"] = User(1)
  /\ gups[Running]["exit"] = User(1)
  /\ gups[Running]["post"] = User(1)
  /\ UserCalls[PreCallIndex].args[1] = Joined
  /\ UserCalls[ExitCallIndex].args[1] = exit_of(Joined)
  /\ result = transition(merge(selection_of(EnterReturn), Joined), EnterReturn)

\* the entering view after the enter phase
EnterResult ==
  IF IsUserFunction(gups[Running]["enter"])
    THEN IF EnterPromotes THEN selection_of(EnterReturn) ELSE EnterReturn
    ELSE enter_of(Joined)

\* the transition context active after the enter phase, if one is
ActiveAtPost == EnterPromotes \/ ActiveBeforeEnter
ContextAtPost == IF EnterPromotes THEN EnterReturn ELSE ContextBeforeEnter

\* C20: the merged view is formed as (enter result).merge(joined
\* selection), entering first; the invocation returns that merged view,
\* wrapped in the active transition when one is active and the view
\* supports it, whether or not a post function is configured; and when post
\* is configured, the value post is invoked on is the value the invocation
\* returns.
C20_MergedViewReturned ==
  (pc = "done" /\ ~thrown) =>
    /\ Len(MergeCalls) = 1
    /\ MergeCalls[1].args = <<EnterResult, Joined>>
    /\ MergeCalls[1].ret = merge(EnterResult, Joined)
    /\ result = IF ActiveAtPost /\ HasTransitionMethod(MergeCalls[1].ret)
                  THEN transition(MergeCalls[1].ret, ContextAtPost)
                  ELSE MergeCalls[1].ret
    /\ IsUserFunction(gups[Running]["post"]) =>
         /\ LastCall.fn = gups[Running]["post"]
         /\ LastCall.args[1] = result

\* a finished call on a transition of an instance without post function
C20_Witness ==
  /\ pc = "done" /\ ~thrown
  /\ CalledOn = Trans /\ d3transition
  /\ gups[Running]["post"] = Null
  /\ gups[Running]["enter"] = User(1)
  /\ result = transition(merge(Append(enter_of(Joined), "u1"), Joined), Trans)

\* none of the five phases of the running instance's factory is configured
NoPhaseConfigured == \A name \in PhaseNames : gups[Running][name] = Null

\* C21: a factory with none of the five phases configured (or all reset to
\* their defaults), bound and invoked on a plain selection, calls no phase
\* function and no transition wrapper: it only performs the join and
\* returns the merge of the join's untransformed entering view with the
\* joined selection.
C21_NoPhasePlainJoin ==
  (pc = "done" /\ ~thrown /\ NoPhaseConfigured /\ ~HasSelection(CalledOn)) =>
    LET data == callables[frame.c].data
        more == callables[frame.c].more
        joined == data_join(CalledOn, data, IF more = <<>> THEN "undefined" ELSE Head(more))
    IN /\ [i \in 1..Len(log) |-> log[i].fn]
            = <<External("data"), External("enter"), External("merge")>>
       /\ log[1].args[1] = CalledOn /\ log[1].ret = joined
       /\ log[2].args = <<joined>> /\ log[2].ret = enter_of(joined)
       /\ log[3].args = <<enter_of(joined), joined>>
       /\ result = merge(enter_of(joined), joined)

\* a finished call on a plain selection, every phase reset by null after
\* having been set, selections exposing transition
C21_Witness ==
  /\ pc = "done" /\ ~thrown /\ NoPhaseConfigured
  /\ CalledOn = Sel /\ d3transition
  /\ frame.args = <<PassThrough>>
  /\ callables[frame.c].more = <<"k1", "m1">>
  /\ result = <<"sel", "d1", "k1", "data", "enter", "sel", "d1", "k1", "data", "merge">>

\* C30: pass-through arguments.  When a bound instance is invoked as
\* (container, a_1..a_m), every phase function that runs in that invocation
\* receives its view followed by exactly a_1..a_m in the same order; no
\* phase changes the pass-through arguments seen by a later phase.
C30_PassThroughArgs ==
  (pc # "idle") =>
    \A i \in 1..Len(UserCalls) :
      /\ Len(UserCalls[i].args) = Len(PassedArgs) + 1
      /\ Tail(UserCalls[i].args) = PassedArgs

\* a finished call with two pass-through arguments, all phases configured
C30_Witness ==
  /\ pc = "done" /\ ~thrown /\ AllPhasesConfigured
  /\ PassedArgs = <<PassThrough, <<"b">>>>
  /\ Len(UserCalls) = 5
  /\ Tail(UserCalls[5].args) = <<<<"a">>, <<"b">>>>

(***************************************************************************)
(* Properties of a call in which a phase function throws, checked under    *)
(* SpecThrow.                                                              *)
(***************************************************************************)
\* the calls of phase functions made by the running call
PhaseCalls ==
  SelectSeq(log, LAMBDA e : IsUserFunction(e.fn) \/ e.fn = Thrower)

\* the first phase, in protocol order, that holds a throwing function
ThrowingPhase ==
  CHOOSE i \in 1..5 :
    /\ gups[Running][Phases[i]] = Thrower
    /\ \A j \in 1..(i - 1) : gups[Running][Phases[j]] # Thrower

\* the configured functions of the phases up to phase number n, in protocol
\* order
ConfiguredUpTo(n) ==
  SelectSeq([i \in 1..n |-> gups[Running][Phases[i]]], LAMBDA f : f # Null)

\* C22: if a phase function throws during an invocation, the exception
\* reaches the caller of the invocation unchanged, no phase function of a
\* later phase is called in that invocation, and the factory's phase
\* configuration and the pending bind are the same as before the
\* invocation.
C22_ThrowPropagates ==
  /\ [](thrown =>
          /\ pc = "done"
          /\ result = Exception
          /\ LastCall.fn = Thrower /\ LastCall.ret = Exception
          /\ [i \in 1..Len(PhaseCalls) |-> PhaseCalls[i].fn]
               = ConfiguredUpTo(ThrowingPhase))
  /\ [][pc # "idle" => (gups' = gups /\ callables' = callables)]_vars
  /\ [][pc' = "select" => (gups' = gups /\ callables' = callables)]_vars

\* the exit function threw after select and pre had run; enter and post are
\* configured and were not called
C22_Witness ==
  /\ pc = "done" /\ thrown
  /\ gups[Running] = [select |-> User(1), pre |-> User(1), exit |-> Thrower,
                       enter |-> User(1), post |-> User(1)]
  /\ Len(PhaseCalls) = 3
  /\ result = Exception

(***************************************************************************)
(* Properties of repeated calls on one container, checked under SpecJoin.  *)
(***************************************************************************)
\* the calls of the appending enter function and of the removing exit
\* function made by the running call
AppenderCalls == SelectSeq(log, LAMBDA e : e.fn = Appender)
RemoverCalls == SelectSeq(log, LAMBDA e : e.fn = Remover)

\* the running instance is bound without a key function
Positional == callables[frame.c].more = <<>>

\* the length of the data array bound to the running instance
BoundLength == DataLength(callables[frame.c].data)

\* the sizes of the entering and of the exiting view of the join of the
\* running call
EnteringLength == Size(enter_of(Joined), dom.size)
ExitingLength == Size(exit_of(Joined), dom.size)

\* enter is the only phase configured, with the appending function
OnlyEnterAppends ==
  \A name \in PhaseNames :
    gups[Running][name] = IF name = "enter" THEN Appender ELSE Null

\* C27: with a positional (no key) join on a container that starts with no
\* elements, a factory whose only configured phase is an enter function
\* that appends one element per entering datum, bound to an array of n
\* data, gives an entering view of length n, which the enter function is
\* called on, and an exiting view of length 0.
C27_EmptyContainerEnters ==
  (PastEnter /\ OnlyEnterAppends /\ Positional /\ dom.tracked /\ dom.size = 0) =>
    /\ EnteringLength = BoundLength
    /\ ExitingLength = 0
    /\ Len(AppenderCalls) = 1
    /\ AppenderCalls[1].args[1] = enter_of(Joined)
    /\ Size(AppenderCalls[1].args[1], dom.size) = BoundLength
    /\ ElementsAfter(log, dom.size, dom.size) = BoundLength

\* the first call on the empty container, bound to ["a", "b"]: two data
\* enter
C27_Witness ==
  /\ pc = "done" /\ ~thrown /\ OnlyEnterAppends /\ Positional
  /\ dom = EmptyContainer
  /\ callables[frame.c].data = "d1"
  /\ EnteringLength = 2 /\ ExitingLength = 0
  /\ Len(AppenderCalls) = 1

\* the last call on the container joined more data than the running one
Shrunk ==
  /\ dom.tracked /\ dom.last.data # "none"
  /\ dom.last.key = "undefined" /\ Positional
  /\ BoundLength < DataLength(dom.last.data)

\* i.data(d, ...) makes d the data the instance is bound to
Rebinds ==
  (call'.op = "data" /\ call'.args # <<>>) => callables'[call'.g].data = call'.args[1]

\* C28 as stated: after a bound instance has been invoked on a container
\* with n data, rebinding it to a strictly shorter array and invoking it
\* again on the same container yields a non-empty exiting view and an
\* empty entering view, whatever the phases of its factory.
C28_ShrunkDataExits ==
  (PastJoin /\ Shrunk) => (ExitingLength >= 1 /\ EnteringLength = 0)

\* C28, amended: after a bound instance whose enter function appends one
\* element per entering datum has been invoked on a container with n data
\* and a positional join, rebinding it with data(...) to a strictly shorter
\* array and invoking it again on the same container yields a non-empty
\* exiting view and an empty entering view.
C28_ShrunkDataExitsAfterAppend ==
  /\ []((PastJoin /\ Shrunk /\ dom.last.enter = Appender) =>
          (ExitingLength >= 1 /\ EnteringLength = 0))
  /\ [][Rebinds]_vars

\* a call with ["a"] on the container a call with ["a", "b"] appended two
\* elements to: one element exits and is removed, none enters
C28_Witness ==
  /\ pc = "done" /\ ~thrown /\ Shrunk /\ dom.last.enter = Appender
  /\ dom.size = 2 /\ dom.last.data = "d1"
  /\ callables[frame.c].data = "d2"
  /\ ExitingLength = 1 /\ EnteringLength = 0
  /\ Len(RemoverCalls) = 1 /\ Len(AppenderCalls) = 1

\* the container holds one element per datum of the array bound to the
\* running instance, which the last call joined to it as well
Settled ==
  /\ dom.tracked /\ dom.last.data = callables[frame.c].data
  /\ dom.last.key = "undefined" /\ Positional
  /\ dom.size = BoundLength

\* C29: idempotence of re-invocation.  Invoking an already invoked bound
\* instance a second time on the same, settled container with unchanged
\* data yields an entering view of length 0 and an exiting view of length
\* 0: the enter function creates nothing, the exit function removes
\* nothing, and the container is left with the elements it had.
C29_Idempotent ==
  (PastJoin /\ Settled) =>
    /\ EnteringLength = 0 /\ ExitingLength = 0
    /\ \A i \in 1..Len(AppenderCalls) : Size(AppenderCalls[i].args[1], dom.size) = 0
    /\ \A i \in 1..Len(RemoverCalls) : Size(RemoverCalls[i].args[1], dom.size) = 0
    /\ ElementsAfter(log, dom.size, dom.size) = dom.size

\* a second call with ["a", "b"] on the container the first call appended
\* two elements to, both the enter and the exit function called
C29_Witness ==
  /\ pc = "done" /\ ~thrown /\ Settled
  /\ dom.size = 2 /\ dom.last.enter = Appender
  /\ Len(AppenderCalls) = 1 /\ Len(RemoverCalls) = 1
  /\ AppenderCalls[1].args[1] = enter_of(Joined)

(***************************************************************************)
(* Properties of a bound instance of a composite, checked under            *)
(* SpecComposite.                                                          *)
(***************************************************************************)
\* no source of the running instance's composite configures the phase
NoSourceConfigures(name) ==
  \A i \in 1..Len(composed[Running]) : gups[composed[Running][i]][name] = Null

\* the calls of the composite's phase function made by the running call
DispatcherRuns(name) ==
  SelectSeq(log, LAMBDA e : e.depth = 0 /\ e.fn = Dispatcher(Running, name))

\* C32: for a composite in which no source configures select
\* (respectively enter), compose() of no sources and compose of fresh
\* factories included, the composite's select (enter) function returns its
\* first argument unchanged; an instance bound from the composite and
\* invoked on a selection completes the protocol, joining the selection it
\* resolved (merging the untransformed entering view) as a factory does
\* whose select (enter) is at its identity default.
C32_CompositeDefaultsAreIdentity ==
  (pc # "idle") =>
    /\ \A name \in ForwardPhases :
         NoSourceConfigures(name) =>
           \A i \in 1..Len(DispatcherRuns(name)) :
             DispatcherRuns(name)[i].ret = DispatcherRuns(name)[i].args[1]
    /\ pc = "done" => ~thrown
    /\ (pc = "done" /\ NoSourceConfigures("select")) =>
         (JoinCalls # <<>> /\ JoinCalls[1].args[1] = Resolved)
    /\ (pc = "done" /\ NoSourceConfigures("enter")) =>
         frame.d_enter = enter_of(frame.selection)

(***************************************************************************)
(* Properties of nested composites, checked under SpecNested.              *)
(***************************************************************************)
\* the composites compose(compose(A, B), C) and compose(A, B, C)
NestedComposite == CHOOSE c \in Composites : Len(composed[c]) = 2 /\ composed[c][2] = LastOperand
FlatComposite == CHOOSE c \in Composites : composed[c] = AllOperands

\* the calls of functions of A, B and C in l: which factory's function,
\* with which arguments, returning what
OperandCalls(l) ==
  LET calls == SelectSeq(l, LAMBDA e : e.src \in Operands /\ e.fn.k # "comp") IN
  [i \in 1..Len(calls) |->
     [src |-> calls[i].src, fn |-> calls[i].fn, args |-> calls[i].args,
      ret |-> calls[i].ret]]

\* C33: nesting is associative.  For every configuration of A, B and C and
\* each of the five phases, the phase function of compose(compose(A, B), C)
\* calls the same functions of A, B and C in the same order with the same
\* arguments and returns the same value as that of compose(A, B, C).
C33_NestingAssociative ==
  \A name \in PhaseNames, args \in CallArgs :
    LET n == PhaseFunctionRun(NestedComposite, name, args)
        f == PhaseFunctionRun(FlatComposite, name, args)
    IN /\ OperandCalls(n.log) = OperandCalls(f.log)
       /\ n.ret = f.ret
       /\ n.thrown = f.thrown

(***************************************************************************)
(* Properties of late configuration, checked under SpecLate.               *)
(***************************************************************************)
\* the phase functions the step calls
NewPhaseCalls ==
  SelectSeq(SubSeq(log', Len(log) + 1, Len(log')), LAMBDA e : e.fn.k # "ext")

\* a phase runs the function its slot holds when the phase is reached, and
\* nothing if the slot holds null then
RunsCurrentSlot ==
  (pc \in PhaseNames /\ pc' # pc) =>
    LET f == gups[Running][pc] IN
      [i \in 1..Len(NewPhaseCalls) |-> NewPhaseCalls[i].fn]
        = IF f = Null THEN <<>> ELSE <<f>>

\* a setter call stores its argument in the slot, whether or not a call of
\* the instance is running, and leaves a running call where it stands
SetterStores ==
  (call'.op \in PhaseNames /\ pc' = pc) =>
    /\ gups'[call'.g][call'.op] = call'.args[1]
    /\ pc # "idle" => (log' = log /\ frame' = frame)

\* C34: a bound instance reads each phase function from its factory when
\* that phase is reached, not when the instance was bound: a setter call
\* on the factory made after the bind, or made by an earlier phase function
\* during the same invocation, determines which function a later phase
\* runs.
C34_ReadsSlotsAtPhase == [][RunsCurrentSlot /\ SetterStores]_vars

\* a finished call during which the pre function set the post function,
\* which the bind and the start of the call had found unset: post ran it
C34_Witness ==
  /\ pc = "done" /\ ~thrown
  /\ call = [op |-> "post", g |-> 1, args |-> <<User(1)>>]
  /\ gups[1]["enter"] = Null
  /\ Len(UserCalls) = 2
  /\ UserCalls[1].args[1] = Joined
  /\ UserCalls[2].fn = User(1) /\ UserCalls[2].args[1] = frame.d_post

(***************************************************************************)
(* Properties of two instances of one factory, checked under SpecTwo.      *)
(***************************************************************************)
\* what i.data() returns for instance c
DataOf(C, c) == _gup_data(C, c, <<>>).ret

\* a call i.data(d, ...) changes neither what the data accessor of another
\* instance returns nor any slot of the factory
DataCallIsLocal ==
  (call'.op = "data" /\ call'.args # <<>>) =>
    /\ \A c \in DOMAIN callables :
         c # call'.g => (callables'[c] = callables[c]
                         /\ DataOf(callables', c) = DataOf(callables, c))
    /\ DataOf(callables', call'.g) = RetArray(call'.args)
    /\ gups' = gups

\* the join of a running call is given the data and the key of the
\* instance that was called
JoinsOwnData ==
  PastJoin =>
    /\ JoinCalls[1].args[2] = <<callables[frame.c].data>>
    /\ JoinCalls[1].args[3] = <<KeyOf(callables[frame.c].more)>>

\* C35: pending binds are per bound instance.  For two instances bound
\* from the same factory, a data(...) setter call on one leaves the other's
\* data() result and the data it joins with unchanged, and no data(...)
\* call changes a phase slot of the factory.
C35_BindsPerInstance == []JoinsOwnData /\ [][DataCallIsLocal]_vars

\* instance 1 was rebound to d2 with key k2; instance 2, called afterwards,
\* has joined the data and key it was bound with
C35_Witness ==
  /\ pc = "done" /\ ~thrown /\ frame.c = 2
  /\ callables[1].data = "d2" /\ callables[1].more = <<"k2">>
  /\ callables[2].data = "d1" /\ callables[2].more = <<"k1">>
  /\ JoinCalls[1].args[2] = <<"d1">> /\ JoinCalls[1].args[3] = <<"k1">>
  /\ gups[1]["enter"] = User(1)
====
